---------------------------- MODULE Spec2Model ----------------------------
(***************************************************************************)
(* Job lifecycle of the financial document analyzer.                       *)
(*                                                                         *)
(* POST /analyze (src/main.py analyze_financial_document_queue) saves the  *)
(* upload, creates a job record and either runs the pipeline itself        *)
(* (inline mode, USE_CELERY false) or hands the job to a Celery worker     *)
(* (queued mode, src/celery_worker.py process_financial_document).         *)
(* GET /status/{job_id} (get_job_status) reads the Job Store and, in       *)
(* queued mode, falls back to the Celery result backend.                   *)
(*                                                                         *)
(* Every handler is a sequence of steps, one per call that touches the     *)
(* store, the file system, the queue or the pipeline; pc (handler) and     *)
(* wpc (worker task) hold the position.  A store call may fail at any      *)
(* time (unreachable database, rejected statement), os.remove may raise,   *)
(* the pipeline may raise, the broker may be unreachable: each is an       *)
(* input drawn with \E where the call is made.                             *)
(*                                                                         *)
(* Scheduling.  The handler body holds no await after "await file.read()"  *)
(* (main.py 149), so the event loop runs the rest of one /analyze call     *)
(* to its return before it starts another; handlers are numbered in the    *)
(* order they run.  Worker tasks run in worker processes and interleave    *)
(* freely with the handlers and with each other.  GET /status writes       *)
(* nothing: it is the operator get_job_status, a function of the state     *)
(* and of whether its store read and its backend read succeed.             *)
(***************************************************************************)
EXTENDS Integers, FiniteSets, Sequences, TLC

(* ------------------------------ bounds -------------------------------- *)

\* number of POST /analyze calls followed
MaxReq == 2
\* number of distinct values str(uuid.uuid4())[:8] is drawn from
NumJobIds == 2

\* the documents read have at most this many pages
MaxPages == 3

Reqs == 1..MaxReq
JobIds == 1..NumJobIds

NoJob == 0
\* no row for a job_id; a row carries its status, whether the output columns
\* are set, its error_message, and rows: how many rows hold that job_id
NoRec == [status |-> "absent", out |-> "null", err |-> "null", rows |-> 0]

Statuses == {"pending", "processing", "completed", "failed"}
Terminal == {"completed", "failed"}

VARIABLES
    useCelery,  \* USE_CELERY, fixed when the process starts
    content,    \* the upload held by the running /analyze handler: "data",
                \* "empty" (zero bytes), "none" when no handler holds one
    pc,         \* position of each /analyze handler
    jid,        \* job_id drawn by each handler
    resp,       \* what each /analyze call returned to its caller
    store,      \* table financial_analyses: job_id -> row (NoRec: no row)
    files,      \* job ids j whose data/financial_document_<j>.pdf exists
    wpc,        \* position of the worker task enqueued by each handler
    reg,        \* Celery result backend: state of each handler's task
    pipe,       \* per execution, run_financial_crew: "no" not called yet,
                \* "running", "ok" returned, "raised", "unreached" (the worker
                \* failed on update_state, before the call)
    wfail,      \* per execution: which of its status writes failed
    termTried,  \* executions that have issued their terminal store write
    delTried,   \* executions that have called os.remove
    tph,        \* field derivation and store round trip: position
    result,     \* the value run_financial_crew returned
    analysis_data,  \* the dict handed to store_complete_analysis
    row,        \* the row of financial_analyses written by the round trip
    saved_analysis, \* what get_analysis_by_job_id returned for that row
    section,    \* the last extract_section call: its arguments and value
    query,      \* the query of one submission: as the form held it, and as
                \* run_financial_crew received it
    health_status,  \* one GET /health call: what was reachable, the answer
    document,   \* one read_data_tool call: the file and what was returned
    table       \* the columns of table financial_analyses

\* the job lifecycle
jvars == <<useCelery, content, pc, jid, resp, store, files, wpc, reg, pipe,
           wfail, termTried, delTried>>

\* field derivation and store round trip of one pipeline result
dvars == <<tph, result, analysis_data, row, saved_analysis, section, query,
           health_status, document, table>>

vars == <<jvars, dvars>>

(* --------------------------- the Job Store ---------------------------- *)

\* INSERT ... VALUES (..., 'pending'): one more row for job_id j.
create_analysis_record(s, j) ==
    [s EXCEPT ![j] = [status |-> "pending", out |-> "null", err |-> "null",
                      rows |-> s[j].rows + 1]]

\* the table without the UNIQUE constraint on job_id
CreateRejected_NoUnique(s, j) == FALSE

\* job_id is declared UNIQUE NOT NULL (main.py 33): the insert of a job_id
\* that has a row raises and writes nothing.
CreateRejected(s, j) == s[j] # NoRec

\* UPDATE ... SET status = %s, error_message = %s WHERE job_id = %s:
\* unconditional on the current status; no row, nothing written, no error.
update_analysis_status(s, j, status, error) ==
    IF s[j] = NoRec THEN s
    ELSE [s EXCEPT ![j].status = status, ![j].err = error]

\* store_complete_analysis with "status = 'completed'" left out of the SET list
store_complete_analysis_KeepsStatus(s, j) ==
    IF s[j] = NoRec THEN s
    ELSE [s EXCEPT ![j].out = "set"]

\* store_complete_analysis as two statements, of which only the one that
\* sets status = 'completed' has been committed
store_complete_analysis_StatusFirst(s, j) ==
    IF s[j] = NoRec THEN s
    ELSE [s EXCEPT ![j].status = "completed"]

\* UPDATE ... SET <the seven output columns>, status = 'completed',
\* processing_duration, completed_at WHERE job_id = %s: one statement, one
\* commit; error_message is not in the SET list; no row, rowcount 0, no error.
store_complete_analysis(s, j) ==
    IF s[j] = NoRec THEN s
    ELSE [s EXCEPT ![j].status = "completed", ![j].out = "set"]

\* SELECT * FROM financial_analyses WHERE job_id = %s
get_analysis_by_job_id(s, j) == s[j]

(* ------------------------------ strings ------------------------------- *)

\* A Python str is the sequence of its characters; positions are counted
\* from 0 as in Python.  Null is the SQL NULL / Python None, no string.
Null == <<"NULL">>

UpperLetters ==
    <<"A", "B", "C", "D", "E", "F", "G", "H", "I", "J", "K", "L", "M",
      "N", "O", "P", "Q", "R", "S", "T", "U", "V", "W", "X", "Y", "Z">>

LowerLetters ==
    <<"a", "b", "c", "d", "e", "f", "g", "h", "i", "j", "k", "l", "m",
      "n", "o", "p", "q", "r", "s", "t", "u", "v", "w", "x", "y", "z">>

Whitespace == {" ", "\n", "\t", "\r"}

MinOf(S) == CHOOSE x \in S : \A y \in S : x <= y
MaxOf(S) == CHOOSE x \in S : \A y \in S : x >= y

IsUpper(c) == \E i \in 1..26 : UpperLetters[i] = c
IsLower(c) == \E i \in 1..26 : LowerLetters[i] = c

LowerChar(c) ==
    IF IsUpper(c)
    THEN LowerLetters[CHOOSE i \in 1..26 : UpperLetters[i] = c]
    ELSE c

UpperChar(c) ==
    IF IsLower(c)
    THEN UpperLetters[CHOOSE i \in 1..26 : LowerLetters[i] = c]
    ELSE c

\* str.lower(), str.upper()
Lowered(s) == [i \in 1..Len(s) |-> LowerChar(s[i])]
Uppered(s) == [i \in 1..Len(s) |-> UpperChar(s[i])]

\* str.title(): a letter that follows a non-letter is upper-cased, every
\* other letter lower-cased
Titled(s) ==
    [i \in 1..Len(s) |->
        IF i = 1 \/ ~(IsUpper(s[i-1]) \/ IsLower(s[i-1]))
        THEN UpperChar(s[i]) ELSE LowerChar(s[i])]

\* s[a:b] for 0 <= a
Slice(s, a, b) == SubSeq(s, a + 1, IF b < Len(s) THEN b ELSE Len(s))

\* s[a:]
SliceFrom(s, a) == SubSeq(s, a + 1, Len(s))

\* s[pos:pos+len(p)] == p
OccursAt(s, p, pos) ==
    /\ pos + Len(p) <= Len(s)
    /\ \A i \in 1..Len(p) : s[pos + i] = p[i]

\* s.find(p, start): the lowest position >= start where p occurs, or -1
Find(s, p, start) ==
    IF \E pos \in start..(Len(s) - Len(p)) : OccursAt(s, p, pos)
    THEN MinOf({pos \in start..(Len(s) - Len(p)) : OccursAt(s, p, pos)})
    ELSE -1

\* p in s
Contains(s, p) == Find(s, p, 0) # -1

\* s.startswith(p)
StartsWith(s, p) == OccursAt(s, p, 0)

\* s.strip()
Strip(s) ==
    IF \A i \in 1..Len(s) : s[i] \in Whitespace
    THEN <<>>
    ELSE SubSeq(s, MinOf({i \in 1..Len(s) : s[i] \notin Whitespace}),
                   MaxOf({i \in 1..Len(s) : s[i] \notin Whitespace}))

\* a or b, on strings: the first one that is not empty
OrElse(a, b) == IF a # <<>> THEN a ELSE b

(* ------------------- celery_worker.py: extract_section ----------------- *)

\* '## '
s_h2 ==
    <<"#", "#", " ">>

\* '# '
s_h1 ==
    <<"#", " ">>

\* '**'
s_bold ==
    <<"*", "*">>

\* ':'
s_colon ==
    <<":">>

\* ' summary'
s_summary ==
    <<" ", "s", "u", "m", "m", "a", "r", "y">>

\* ' analysis'
s_analysis ==
    <<" ", "a", "n", "a", "l", "y", "s", "i", "s">>

\* ' report'
s_report ==
    <<" ", "r", "e", "p", "o", "r", "t">>

\* 'investment'
s_investment ==
    <<"i", "n", "v", "e", "s", "t", "m", "e", "n", "t">>

\* 'risk'
s_risk ==
    <<"r", "i", "s", "k">>

\* celery_worker.py 230-238
investment_patterns ==
    <<<<"#", "#", " ", "i", "n", "v", "e", "s", "t", "m", "e", "n", "t",
          " ", "r", "e", "c", "o", "m", "m", "e", "n", "d", "a", "t", "i",
          "o", "n">>,
      <<"*", "*", "i", "n", "v", "e", "s", "t", "m", "e", "n", "t", " ",
          "r", "e", "c", "o", "m", "m", "e", "n", "d", "a", "t", "i", "o",
          "n", "*", "*">>,
      <<"i", "n", "v", "e", "s", "t", "m", "e", "n", "t", " ", "r", "e",
          "c", "o", "m", "m", "e", "n", "d", "a", "t", "i", "o", "n", ":">>,
      <<"r", "e", "c", "o", "m", "m", "e", "n", "d", "a", "t", "i", "o",
          "n", ":">>,
      <<"f", "i", "n", "a", "l", " ", "r", "e", "c", "o", "m", "m", "e",
          "n", "d", "a", "t", "i", "o", "n">>,
      <<"b", "u", "y", "/", "h", "o", "l", "d", "/", "s", "e", "l", "l",
          " ", "r", "e", "c", "o", "m", "m", "e", "n", "d", "a", "t", "i",
          "o", "n">>,
      <<"i", "n", "v", "e", "s", "t", "m", "e", "n", "t", " ", "a", "d",
          "v", "i", "c", "e">>>>

\* celery_worker.py 241-250
risk_patterns ==
    <<<<"#", "#", " ", "r", "i", "s", "k", " ", "a", "s", "s", "e", "s",
          "s", "m", "e", "n", "t">>,
      <<"*", "*", "r", "i", "s", "k", " ", "a", "s", "s", "e", "s", "s",
          "m", "e", "n", "t", "*", "*">>,
      <<"r", "i", "s", "k", " ", "a", "s", "s", "e", "s", "s", "m", "e",
          "n", "t", ":">>,
      <<"*", "*", "r", "i", "s", "k", " ", "f", "a", "c", "t", "o", "r",
          "s", "*", "*">>,
      <<"r", "i", "s", "k", " ", "f", "a", "c", "t", "o", "r", "s", ":">>,
      <<"r", "i", "s", "k", " ", "a", "n", "a", "l", "y", "s", "i", "s">>,
      <<"k", "e", "y", " ", "r", "i", "s", "k", "s", ":">>,
      <<"m", "a", "i", "n", " ", "r", "i", "s", "k", "s", ":">>>>

\* celery_worker.py 268: the next-section delimiters, in the order tried
end_markers ==
    <<<<"\n", "#", "#", " ">>,
      <<"\n", "#", " ">>,
      <<"\n", "*", "*">>,
      <<"\n", "-", "-", "-">>,
      <<"\n", "\n", "\n">>>>

\* celery_worker.py 267: the end of the section is searched from this many
\* characters past the matched marker
LookAhead == 10

\* celery_worker.py 288: an extraction of at most this many characters is
\* discarded
MinSectionLen == 30

\* celery_worker.py 212-250: the candidate markers for a section name, in
\* the order they are tried
patterns(section_lower) ==
    <<s_h2 \o section_lower,
      s_h1 \o section_lower,
      s_bold \o section_lower \o s_bold,
      s_bold \o Titled(section_lower) \o s_bold,
      section_lower \o s_colon,
      Titled(section_lower) \o s_colon,
      section_lower \o s_summary,
      section_lower \o s_analysis,
      section_lower \o s_report>>
    \o (IF Contains(section_lower, s_investment)
        THEN investment_patterns ELSE <<>>)
    \o (IF Contains(section_lower, s_risk) THEN risk_patterns ELSE <<>>)

\* celery_worker.py 280-285: strip the first candidate marker the extracted
\* text starts with (lower-cased comparison), then a leading colon
strip_header(extracted, pats) ==
    IF \E i \in 1..Len(pats) : StartsWith(Lowered(extracted), pats[i])
    THEN LET pattern ==
                 pats[MinOf({i \in 1..Len(pats) :
                                StartsWith(Lowered(extracted), pats[i])})]
             rest == Strip(SliceFrom(extracted, Len(pattern)))
         IN  IF StartsWith(rest, s_colon) THEN Strip(SliceFrom(rest, 1))
             ELSE rest
    ELSE extracted

\* celery_worker.py 287-291: if len(extracted) > 30: return it, else ""
keep_if_substantial(cleaned) ==
    IF Len(cleaned) > MinSectionLen THEN cleaned ELSE <<>>

\* the candidate marker whose first occurrence comes first in the text,
\* whatever its place in the list
used_marker_Earliest(text, section_name) ==
    LET text_lower == Lowered(text)
        pats == patterns(Lowered(section_name))
        hits == {i \in 1..Len(pats) : Contains(text_lower, pats[i])}
        first == MinOf({Find(text_lower, pats[i], 0) : i \in hits})
    IN  IF hits = {} THEN <<>>
        ELSE pats[MinOf({i \in hits : Find(text_lower, pats[i], 0) = first})]

\* celery_worker.py 251-260: the marker used is the first candidate, in list
\* order, that occurs in the lower-cased text ("" when none does)
used_marker(text, section_name) ==
    LET text_lower == Lowered(text)
        pats == patterns(Lowered(section_name))
        hits == {i \in 1..Len(pats) : Contains(text_lower, pats[i])}
    IN  IF hits = {} THEN <<>> ELSE pats[MinOf(hits)]

\* celery_worker.py 251-260: where the section starts, the first occurrence
\* of the marker used (-1 when no candidate occurs)
start_pos(text, section_name) ==
    IF used_marker(text, section_name) = <<>> THEN -1
    ELSE Find(Lowered(text), used_marker(text, section_name), 0)

\* celery_worker.py 266-277: where the section ends, the first kind of end
\* marker, in list order, found from search_start on, or the end of the text
end_pos(text, section_name) ==
    LET search_start == start_pos(text, section_name)
                          + Len(used_marker(text, section_name)) + LookAhead
        ends == {k \in 1..Len(end_markers) :
                    Find(text, end_markers[k], search_start) # -1}
    IN  IF ends = {} THEN Len(text)
        ELSE Find(text, end_markers[MinOf(ends)], search_start)

\* extract_section, except that a text without any marker is returned whole
extract_section_UnmarkedReturnsText(text, section_name) ==
    IF text = <<>> \/ section_name = <<>> THEN <<>>
    ELSE IF start_pos(text, section_name) = -1 THEN Strip(text)
    ELSE keep_if_substantial(
            strip_header(Strip(Slice(text, start_pos(text, section_name),
                                     end_pos(text, section_name))),
                         patterns(Lowered(section_name))))

\* celery_worker.py 202-295
extract_section(text, section_name) ==
    IF text = <<>> \/ section_name = <<>> THEN <<>>
    ELSE IF start_pos(text, section_name) = -1 THEN <<>>
    ELSE keep_if_substantial(
            strip_header(Strip(Slice(text, start_pos(text, section_name),
                                     end_pos(text, section_name))),
                         patterns(Lowered(section_name))))

(* -------------- celery_worker.py: extract_confidence_rating ------------ *)

\* 'HIGH'
s_HIGH ==
    <<"H", "I", "G", "H">>

\* 'MEDIUM'
s_MEDIUM ==
    <<"M", "E", "D", "I", "U", "M">>

\* 'LOW'
s_LOW ==
    <<"L", "O", "W">>

\* 'CONFIDENCE'
s_CONFIDENCE ==
    <<"C", "O", "N", "F", "I", "D", "E", "N", "C", "E">>

\* 'RATING'
s_RATING ==
    <<"R", "A", "T", "I", "N", "G">>

\* 'HIGH CONFIDENCE'
s_HIGH_CONFIDENCE ==
    <<"H", "I", "G", "H", " ", "C", "O", "N", "F", "I", "D", "E", "N", "C",
      "E">>

\* 'CONFIDENCE: HIGH'
s_CONFIDENCE_HIGH ==
    <<"C", "O", "N", "F", "I", "D", "E", "N", "C", "E", ":", " ", "H", "I",
      "G", "H">>

\* 'MEDIUM CONFIDENCE'
s_MEDIUM_CONFIDENCE ==
    <<"M", "E", "D", "I", "U", "M", " ", "C", "O", "N", "F", "I", "D", "E",
      "N", "C", "E">>

\* 'CONFIDENCE: MEDIUM'
s_CONFIDENCE_MEDIUM ==
    <<"C", "O", "N", "F", "I", "D", "E", "N", "C", "E", ":", " ", "M", "E",
      "D", "I", "U", "M">>

\* 'LOW CONFIDENCE'
s_LOW_CONFIDENCE ==
    <<"L", "O", "W", " ", "C", "O", "N", "F", "I", "D", "E", "N", "C", "E">>

\* 'CONFIDENCE: LOW'
s_CONFIDENCE_LOW ==
    <<"C", "O", "N", "F", "I", "D", "E", "N", "C", "E", ":", " ", "L", "O",
      "W">>

\* celery_worker.py 307-315: one test of the chain, for a rating word
rating_matches(text_upper, word, word_confidence, confidence_word) ==
    \/ /\ Contains(text_upper, word)
       /\ Contains(text_upper, s_CONFIDENCE) \/ Contains(text_upper, s_RATING)
    \/ Contains(text_upper, word_confidence)
    \/ Contains(text_upper, confidence_word)

\* extract_confidence_rating, except that a text without any rating reads LOW
extract_confidence_rating_DefaultLow(text) ==
    IF text = <<>> THEN s_HIGH
    ELSE IF rating_matches(Uppered(text), s_HIGH, s_HIGH_CONFIDENCE,
                           s_CONFIDENCE_HIGH) THEN s_HIGH
    ELSE IF rating_matches(Uppered(text), s_MEDIUM, s_MEDIUM_CONFIDENCE,
                           s_CONFIDENCE_MEDIUM) THEN s_MEDIUM
    ELSE s_LOW

\* extract_confidence_rating, except that LOW is tested first and HIGH last
extract_confidence_rating_LowFirst(text) ==
    IF text = <<>> THEN s_HIGH
    ELSE IF rating_matches(Uppered(text), s_LOW, s_LOW_CONFIDENCE,
                           s_CONFIDENCE_LOW) THEN s_LOW
    ELSE IF rating_matches(Uppered(text), s_MEDIUM, s_MEDIUM_CONFIDENCE,
                           s_CONFIDENCE_MEDIUM) THEN s_MEDIUM
    ELSE s_HIGH

\* celery_worker.py 298-321
extract_confidence_rating(text) ==
    IF text = <<>> THEN s_HIGH
    ELSE IF rating_matches(Uppered(text), s_HIGH, s_HIGH_CONFIDENCE,
                           s_CONFIDENCE_HIGH) THEN s_HIGH
    ELSE IF rating_matches(Uppered(text), s_MEDIUM, s_MEDIUM_CONFIDENCE,
                           s_CONFIDENCE_MEDIUM) THEN s_MEDIUM
    ELSE IF rating_matches(Uppered(text), s_LOW, s_LOW_CONFIDENCE,
                           s_CONFIDENCE_LOW) THEN s_LOW
    ELSE s_HIGH

(* --------------------- field derivation (both modes) ------------------- *)

\* 'market research'
s_market_research ==
    <<"m", "a", "r", "k", "e", "t", " ", "r", "e", "s", "e", "a", "r", "c",
      "h">>

\* 'financial analysis'
s_financial_analysis ==
    <<"f", "i", "n", "a", "n", "c", "i", "a", "l", " ", "a", "n", "a", "l",
      "y", "s", "i", "s">>

\* 'executive summary'
s_executive_summary ==
    <<"e", "x", "e", "c", "u", "t", "i", "v", "e", " ", "s", "u", "m", "m",
      "a", "r", "y">>

\* 'investment recommendation'
s_investment_recommendation ==
    <<"i", "n", "v", "e", "s", "t", "m", "e", "n", "t", " ", "r", "e", "c",
      "o", "m", "m", "e", "n", "d", "a", "t", "i", "o", "n">>

\* 'recommendation'
s_recommendation ==
    <<"r", "e", "c", "o", "m", "m", "e", "n", "d", "a", "t", "i", "o", "n">>

\* 'risk assessment'
s_risk_assessment ==
    <<"r", "i", "s", "k", " ", "a", "s", "s", "e", "s", "s", "m", "e", "n",
      "t">>

\* 'risk factors'
s_risk_factors ==
    <<"r", "i", "s", "k", " ", "f", "a", "c", "t", "o", "r", "s">>

\* 'verification'
s_verification ==
    <<"v", "e", "r", "i", "f", "i", "c", "a", "t", "i", "o", "n">>

\* 'Analysis completed successfully.'
s_completed_successfully ==
    <<"A", "n", "a", "l", "y", "s", "i", "s", " ", "c", "o", "m", "p", "l",
      "e", "t", "e", "d", " ", "s", "u", "c", "c", "e", "s", "s", "f", "u",
      "l", "l", "y", ".">>

\* '\n\n--- FINANCIAL ANALYSIS ---\n\n'
s_sep_financial ==
    <<"\n", "\n", "-", "-", "-", " ", "F", "I", "N", "A", "N", "C", "I",
      "A", "L", " ", "A", "N", "A", "L", "Y", "S", "I", "S", " ", "-", "-",
      "-", "\n", "\n">>

\* '\n\n--- VERIFICATION REPORT ---\n\n'
s_sep_verification ==
    <<"\n", "\n", "-", "-", "-", " ", "V", "E", "R", "I", "F", "I", "C",
      "A", "T", "I", "O", "N", " ", "R", "E", "P", "O", "R", "T", " ", "-",
      "-", "-", "\n", "\n">>

\* main.py 227: full_report[:500]
PreviewLen == 500

\* A pipeline result: has_raw is hasattr(result, 'raw'), raw is
\* str(result.raw), tasks_output the str(t.raw) of its stage outputs, repr
\* is str(result).
stage_output(res, k) ==
    IF Len(res.tasks_output) >= k THEN res.tasks_output[k] ELSE <<>>

\* main.py 226-234 = celery_worker.py 122-130: the dict built from the three
\* stage outputs and the full report
structure_fields(market_research, financial_analysis, verification_report, full_report) ==
    [market_research |->
        OrElse(market_research,
               OrElse(extract_section(full_report, s_market_research),
                      Slice(full_report, 0, PreviewLen))),
     financial_analysis |->
        OrElse(financial_analysis,
               OrElse(extract_section(full_report, s_financial_analysis),
                      extract_section(full_report, s_executive_summary))),
     investment_recommendation |->
        OrElse(extract_section(OrElse(financial_analysis, full_report),
                               s_investment_recommendation),
               extract_section(OrElse(financial_analysis, full_report),
                               s_recommendation)),
     risk_assessment |->
        OrElse(extract_section(OrElse(financial_analysis, full_report),
                               s_risk_assessment),
               extract_section(OrElse(financial_analysis, full_report),
                               s_risk_factors)),
     verification_report |->
        OrElse(verification_report,
               OrElse(extract_section(full_report, s_verification),
                      s_completed_successfully)),
     full_report |-> full_report,
     confidence_rating |->
        extract_confidence_rating(OrElse(verification_report, full_report))]

\* main.py 207-234 (inline handler)
inline_analysis_data(res) ==
    structure_fields(stage_output(res, 1), stage_output(res, 2),
                     stage_output(res, 3),
                     IF res.has_raw THEN res.raw ELSE res.repr)

\* celery_worker.py 67-130 (worker task)
worker_analysis_data(res) ==
    IF res.has_raw
    THEN structure_fields(stage_output(res, 1), stage_output(res, 2),
                          stage_output(res, 3), res.raw)
    ELSE IF res.tasks_output # <<>>
    THEN structure_fields(stage_output(res, 1), stage_output(res, 2),
                          stage_output(res, 3),
                          stage_output(res, 1) \o s_sep_financial
                             \o stage_output(res, 2) \o s_sep_verification
                             \o stage_output(res, 3))
    ELSE structure_fields(<<>>, <<>>, <<>>, res.repr)

\* the five section fields of the dict
SectionKeys ==
    {"market_research", "financial_analysis", "investment_recommendation",
     "risk_assessment", "verification_report"}

\* the seven output fields of the dict
OutputKeys == SectionKeys \cup {"full_report", "confidence_rating"}

(* ------------------- the Job Store, one row in full -------------------- *)

\* models.py 45-51, 62-68: the column each field of the dict is written to
Column ==
    [market_research |-> "market_research_summary",
     financial_analysis |-> "financial_metrics_analysis",
     investment_recommendation |-> "investment_recommendation",
     risk_assessment |-> "risk_assessment",
     verification_report |-> "verification_report",
     full_report |-> "full_analysis_report",
     confidence_rating |-> "confidence_rating"]

\* no row
NoRow ==
    [status |-> "absent",
     market_research_summary |-> Null, financial_metrics_analysis |-> Null,
     investment_recommendation |-> Null, risk_assessment |-> Null,
     verification_report |-> Null, full_analysis_report |-> Null,
     confidence_rating |-> Null, processing_duration |-> "null",
     error_message |-> "null", completed_at |-> "null"]

\* analysis_data.get(key, '')
DictGet(d, key) == IF key \in DOMAIN d THEN d[key] ELSE <<>>

\* models.py 10-22: the inserted row; every column the INSERT does not name
\* is NULL (the text columns are TEXT, main.py 38-43)
insert_row == [NoRow EXCEPT !.status = "pending"]

\* models.py 27-37 on a row in full
update_row(r, status, error_message) ==
    IF r = NoRow THEN r
    ELSE [r EXCEPT !.status = status, !.error_message = error_message]

\* store_complete_analysis writing the report through the 500-character
\* preview
store_row_Truncating(r, d, duration) ==
    IF r = NoRow THEN r
    ELSE [r EXCEPT
            !.market_research_summary = DictGet(d, "market_research"),
            !.financial_metrics_analysis = DictGet(d, "financial_analysis"),
            !.investment_recommendation = DictGet(d, "investment_recommendation"),
            !.risk_assessment = DictGet(d, "risk_assessment"),
            !.verification_report = DictGet(d, "verification_report"),
            !.full_analysis_report =
                 Slice(DictGet(d, "full_report"), 0, PreviewLen),
            !.confidence_rating = DictGet(d, "confidence_rating"),
            !.status = "completed",
            !.processing_duration = duration,
            !.completed_at = "now"]

\* models.py 42-73 on a row in full: every output column is set from
\* analysis_data.get(key, ''), status, duration and completed_at with it
store_row(r, d, duration) ==
    IF r = NoRow THEN r
    ELSE [r EXCEPT
            !.market_research_summary = DictGet(d, "market_research"),
            !.financial_metrics_analysis = DictGet(d, "financial_analysis"),
            !.investment_recommendation = DictGet(d, "investment_recommendation"),
            !.risk_assessment = DictGet(d, "risk_assessment"),
            !.verification_report = DictGet(d, "verification_report"),
            !.full_analysis_report = DictGet(d, "full_report"),
            !.confidence_rating = DictGet(d, "confidence_rating"),
            !.status = "completed",
            !.processing_duration = duration,
            !.completed_at = "now"]

\* models.py 76-83: SELECT *, the row as a dict
select_row(r) == r

(* ----------------------------- the inputs ------------------------------ *)

\* '## Risk Assessment'
t_risk_header ==
    <<"#", "#", " ", "R", "i", "s", "k", " ", "A", "s", "s", "e", "s", "s",
      "m", "e", "n", "t">>

\* 'Market volatility is elevated.'
t_body_30 ==
    <<"M", "a", "r", "k", "e", "t", " ", "v", "o", "l", "a", "t", "i", "l",
      "i", "t", "y", " ", "i", "s", " ", "e", "l", "e", "v", "a", "t", "e",
      "d", ".">>

\* 'Market volatility is elevated!!'
t_body_31 ==
    <<"M", "a", "r", "k", "e", "t", " ", "v", "o", "l", "a", "t", "i", "l",
      "i", "t", "y", " ", "i", "s", " ", "e", "l", "e", "v", "a", "t", "e",
      "d", "!", "!">>

\* 'Market volatility is elevated and rising fast.'
t_body_46 ==
    <<"M", "a", "r", "k", "e", "t", " ", "v", "o", "l", "a", "t", "i", "l",
      "i", "t", "y", " ", "i", "s", " ", "e", "l", "e", "v", "a", "t", "e",
      "d", " ", "a", "n", "d", " ", "r", "i", "s", "i", "n", "g", " ", "f",
      "a", "s", "t", ".">>

\* 'Short.'
t_body_6 ==
    <<"S", "h", "o", "r", "t", ".">>

\* '## Market Integration'
t_next_short ==
    <<"#", "#", " ", "M", "a", "r", "k", "e", "t", " ", "I", "n", "t", "e",
      "g", "r", "a", "t", "i", "o", "n">>

\* '## Market Integration and Outlook Summary'
t_next_long ==
    <<"#", "#", " ", "M", "a", "r", "k", "e", "t", " ", "I", "n", "t", "e",
      "g", "r", "a", "t", "i", "o", "n", " ", "a", "n", "d", " ", "O", "u",
      "t", "l", "o", "o", "k", " ", "S", "u", "m", "m", "a", "r", "y">>

\* 'Revenue grew 4 percent and margins held steady this year.'
t_plain ==
    <<"R", "e", "v", "e", "n", "u", "e", " ", "g", "r", "e", "w", " ", "4",
      " ", "p", "e", "r", "c", "e", "n", "t", " ", "a", "n", "d", " ", "m",
      "a", "r", "g", "i", "n", "s", " ", "h", "e", "l", "d", " ", "s", "t",
      "e", "a", "d", "y", " ", "t", "h", "i", "s", " ", "y", "e", "a", "r",
      ".">>

\* 'OK'
t_tiny ==
    <<"O", "K">>

\* '## Market Research\nDemand is stable across all regions this quarter.\n## Financial Analysis\nRevenue grew four percent while margins held steady.\n## Investment Recommendation\nHold the position and review after next earnings.\n## Risk Assessment\nCurrency exposure and supplier concentration remain.\n## Verification\nAll reported figures were checked against the filing.'
t_full ==
    <<"#", "#", " ", "M", "a", "r", "k", "e", "t", " ", "R", "e", "s", "e",
      "a", "r", "c", "h", "\n", "D", "e", "m", "a", "n", "d", " ", "i",
      "s", " ", "s", "t", "a", "b", "l", "e", " ", "a", "c", "r", "o", "s",
      "s", " ", "a", "l", "l", " ", "r", "e", "g", "i", "o", "n", "s", " ",
      "t", "h", "i", "s", " ", "q", "u", "a", "r", "t", "e", "r", ".",
      "\n", "#", "#", " ", "F", "i", "n", "a", "n", "c", "i", "a", "l",
      " ", "A", "n", "a", "l", "y", "s", "i", "s", "\n", "R", "e", "v",
      "e", "n", "u", "e", " ", "g", "r", "e", "w", " ", "f", "o", "u", "r",
      " ", "p", "e", "r", "c", "e", "n", "t", " ", "w", "h", "i", "l", "e",
      " ", "m", "a", "r", "g", "i", "n", "s", " ", "h", "e", "l", "d", " ",
      "s", "t", "e", "a", "d", "y", ".", "\n", "#", "#", " ", "I", "n",
      "v", "e", "s", "t", "m", "e", "n", "t", " ", "R", "e", "c", "o", "m",
      "m", "e", "n", "d", "a", "t", "i", "o", "n", "\n", "H", "o", "l",
      "d", " ", "t", "h", "e", " ", "p", "o", "s", "i", "t", "i", "o", "n",
      " ", "a", "n", "d", " ", "r", "e", "v", "i", "e", "w", " ", "a", "f",
      "t", "e", "r", " ", "n", "e", "x", "t", " ", "e", "a", "r", "n", "i",
      "n", "g", "s", ".", "\n", "#", "#", " ", "R", "i", "s", "k", " ",
      "A", "s", "s", "e", "s", "s", "m", "e", "n", "t", "\n", "C", "u",
      "r", "r", "e", "n", "c", "y", " ", "e", "x", "p", "o", "s", "u", "r",
      "e", " ", "a", "n", "d", " ", "s", "u", "p", "p", "l", "i", "e", "r",
      " ", "c", "o", "n", "c", "e", "n", "t", "r", "a", "t", "i", "o", "n",
      " ", "r", "e", "m", "a", "i", "n", ".", "\n", "#", "#", " ", "V",
      "e", "r", "i", "f", "i", "c", "a", "t", "i", "o", "n", "\n", "A",
      "l", "l", " ", "r", "e", "p", "o", "r", "t", "e", "d", " ", "f", "i",
      "g", "u", "r", "e", "s", " ", "w", "e", "r", "e", " ", "c", "h", "e",
      "c", "k", "e", "d", " ", "a", "g", "a", "i", "n", "s", "t", " ", "t",
      "h", "e", " ", "f", "i", "l", "i", "n", "g", ".">>

\* 'Markets are calm and demand is stable.'
t_stage_market ==
    <<"M", "a", "r", "k", "e", "t", "s", " ", "a", "r", "e", " ", "c", "a",
      "l", "m", " ", "a", "n", "d", " ", "d", "e", "m", "a", "n", "d", " ",
      "i", "s", " ", "s", "t", "a", "b", "l", "e", ".">>

\* 'Margins are stable. Recommendation: hold the position for now and review it.'
t_stage_financial ==
    <<"M", "a", "r", "g", "i", "n", "s", " ", "a", "r", "e", " ", "s", "t",
      "a", "b", "l", "e", ".", " ", "R", "e", "c", "o", "m", "m", "e", "n",
      "d", "a", "t", "i", "o", "n", ":", " ", "h", "o", "l", "d", " ", "t",
      "h", "e", " ", "p", "o", "s", "i", "t", "i", "o", "n", " ", "f", "o",
      "r", " ", "n", "o", "w", " ", "a", "n", "d", " ", "r", "e", "v", "i",
      "e", "w", " ", "i", "t", ".">>

\* 'All figures verified. Confidence: MEDIUM'
t_stage_verification ==
    <<"A", "l", "l", " ", "f", "i", "g", "u", "r", "e", "s", " ", "v", "e",
      "r", "i", "f", "i", "e", "d", ".", " ", "C", "o", "n", "f", "i", "d",
      "e", "n", "c", "e", ":", " ", "M", "E", "D", "I", "U", "M">>

\* a report longer than the 500-character preview
t_long == [i \in 1..(PreviewLen + 1) |-> "x"]

\* a risk section closed by a rule, with a later '## ' header: '## Risk Assessment\nCurrency exposure and supplier concentration remain.\n---\nAppendix follows here.\n## Market Integration'
t_two_delims ==
    <<"#", "#", " ", "R", "i", "s", "k", " ", "A", "s", "s", "e", "s", "s",
      "m", "e", "n", "t", "\n", "C", "u", "r", "r", "e", "n", "c", "y",
      " ", "e", "x", "p", "o", "s", "u", "r", "e", " ", "a", "n", "d", " ",
      "s", "u", "p", "p", "l", "i", "e", "r", " ", "c", "o", "n", "c", "e",
      "n", "t", "r", "a", "t", "i", "o", "n", " ", "r", "e", "m", "a", "i",
      "n", ".", "\n", "-", "-", "-", "\n", "A", "p", "p", "e", "n", "d",
      "i", "x", " ", "f", "o", "l", "l", "o", "w", "s", " ", "h", "e", "r",
      "e", ".", "\n", "#", "#", " ", "M", "a", "r", "k", "e", "t", " ",
      "I", "n", "t", "e", "g", "r", "a", "t", "i", "o", "n">>

\* a 'risk assessment:' line ahead of the '## Risk Assessment' header: 'Risk assessment: see the list below.\n\n## Risk Assessment\nCurrency exposure and supplier concentration remain high.'
t_low_first ==
    <<"R", "i", "s", "k", " ", "a", "s", "s", "e", "s", "s", "m", "e", "n",
      "t", ":", " ", "s", "e", "e", " ", "t", "h", "e", " ", "l", "i", "s",
      "t", " ", "b", "e", "l", "o", "w", ".", "\n", "\n", "#", "#", " ",
      "R", "i", "s", "k", " ", "A", "s", "s", "e", "s", "s", "m", "e", "n",
      "t", "\n", "C", "u", "r", "r", "e", "n", "c", "y", " ", "e", "x",
      "p", "o", "s", "u", "r", "e", " ", "a", "n", "d", " ", "s", "u", "p",
      "p", "l", "i", "e", "r", " ", "c", "o", "n", "c", "e", "n", "t", "r",
      "a", "t", "i", "o", "n", " ", "r", "e", "m", "a", "i", "n", " ", "h",
      "i", "g", "h", ".">>

\* a verification text rated MEDIUM: 'All figures verified. Confidence: MEDIUM'
t_conf_medium ==
    <<"A", "l", "l", " ", "f", "i", "g", "u", "r", "e", "s", " ", "v", "e",
      "r", "i", "f", "i", "e", "d", ".", " ", "C", "o", "n", "f", "i", "d",
      "e", "n", "c", "e", ":", " ", "M", "E", "D", "I", "U", "M">>

\* a rating keyword without a qualifier term: 'Medium sized firm with steady revenue.'
t_medium_only ==
    <<"M", "e", "d", "i", "u", "m", " ", "s", "i", "z", "e", "d", " ", "f",
      "i", "r", "m", " ", "w", "i", "t", "h", " ", "s", "t", "e", "a", "d",
      "y", " ", "r", "e", "v", "e", "n", "u", "e", ".">>

\* a qualifier term without a rating keyword: 'The rating is pending.'
t_rating_only ==
    <<"T", "h", "e", " ", "r", "a", "t", "i", "n", "g", " ", "i", "s", " ",
      "p", "e", "n", "d", "i", "n", "g", ".">>

\* a HIGH pair and a LOW pair: 'High confidence on revenue, low confidence on margins.'
t_high_and_low ==
    <<"H", "i", "g", "h", " ", "c", "o", "n", "f", "i", "d", "e", "n", "c",
      "e", " ", "o", "n", " ", "r", "e", "v", "e", "n", "u", "e", ",", " ",
      "l", "o", "w", " ", "c", "o", "n", "f", "i", "d", "e", "n", "c", "e",
      " ", "o", "n", " ", "m", "a", "r", "g", "i", "n", "s", ".">>

\* a MEDIUM pair and a LOW pair: 'Medium confidence overall; low rating for liquidity.'
t_medium_and_low ==
    <<"M", "e", "d", "i", "u", "m", " ", "c", "o", "n", "f", "i", "d", "e",
      "n", "c", "e", " ", "o", "v", "e", "r", "a", "l", "l", ";", " ", "l",
      "o", "w", " ", "r", "a", "t", "i", "n", "g", " ", "f", "o", "r", " ",
      "l", "i", "q", "u", "i", "d", "i", "t", "y", ".">>

\* a LOW pair alone: 'Low confidence.'
t_low_conf ==
    <<"L", "o", "w", " ", "c", "o", "n", "f", "i", "d", "e", "n", "c", "e",
      ".">>

\* LOW and RATING inside other words: 'Operating margins are below target.'
t_operating ==
    <<"O", "p", "e", "r", "a", "t", "i", "n", "g", " ", "m", "a", "r", "g",
      "i", "n", "s", " ", "a", "r", "e", " ", "b", "e", "l", "o", "w", " ",
      "t", "a", "r", "g", "e", "t", ".">>

\* texts that probe the order of the end markers and of the candidates
ProbeTexts == {t_two_delims, t_low_first}

\* texts that probe extract_confidence_rating
ConfidenceTexts ==
    {t_conf_medium, t_medium_only, t_rating_only, t_high_and_low,
     t_medium_and_low, t_low_conf, t_operating}

RiskBodies == {t_body_30, t_body_31, t_body_46, t_body_6}
NextHeaders == {t_next_short, t_next_long}

\* a '## Risk Assessment' header line, a one-sentence body, a following header
ScenarioText(body, next) ==
    t_risk_header \o <<"\n">> \o body \o <<"\n">> \o next

\* the full reports the pipeline is taken to return
RawTexts ==
    {ScenarioText(b, h) : b \in RiskBodies, h \in NextHeaders}
       \cup {<<>>, t_tiny, t_plain, t_full, t_long}
       \cup ProbeTexts \cup ConfidenceTexts

\* the per-stage outputs it is taken to return: none, or all three
StageOutputs ==
    {<<>>, <<t_stage_market, t_stage_financial, t_stage_verification>>}

\* the pipeline results: with a raw text, or without one (then str(result)
\* stands in)
Results ==
    {[has_raw |-> TRUE, raw |-> t, tasks_output |-> o, repr |-> t] :
        t \in RawTexts, o \in StageOutputs}
    \cup {[has_raw |-> FALSE, raw |-> <<>>, tasks_output |-> o,
           repr |-> t_plain] : o \in StageOutputs}

\* testdatabase.py 46-52 and variations: dicts handed to
\* store_complete_analysis, some of them without some of the keys
FakeData ==
    {[market_research |-> t_stage_market,
      financial_analysis |-> t_stage_financial,
      verification_report |-> t_stage_verification,
      full_report |-> t,
      confidence_rating |-> s_HIGH] : t \in {t_plain, t_full, t_long, <<>>}}
    \cup {[full_report |-> t] : t \in {t_plain, t_long}}
    \cup {[confidence_rating |-> s_LOW]}

\* the section names extract_section is called with (main.py 227-231)
SectionNames ==
    {s_market_research, s_financial_analysis, s_executive_summary,
     s_investment_recommendation, s_recommendation, s_risk_assessment,
     s_risk_factors, s_verification}

NoResult ==
    [has_raw |-> FALSE, raw |-> <<>>, tasks_output |-> <<>>, repr |-> <<>>]

\* the empty dict
NoData == <<>>

NoSection ==
    [text |-> <<>>, name |-> <<>>, value |-> <<>>, start |-> -1, end |-> -1]

(* -------------------- POST /analyze: the query ------------------------- *)

\* main.py 155: the canned default query
default_query ==
    <<"P", "r", "o", "v", "i", "d", "e", " ", "c", "o", "m", "p", "r", "e",
      "h", "e", "n", "s", "i", "v", "e", " ", "f", "i", "n", "a", "n", "c",
      "i", "a", "l", " ", "a", "n", "a", "l", "y", "s", "i", "s", " ", "w",
      "i", "t", "h", " ", "c", "u", "r", "r", "e", "n", "t", " ", "m", "a",
      "r", "k", "e", "t", " ", "c", "o", "n", "t", "e", "x", "t", " ", "a",
      "n", "d", " ", "i", "n", "v", "e", "s", "t", "m", "e", "n", "t", " ",
      "r", "e", "c", "o", "m", "m", "e", "n", "d", "a", "t", "i", "o", "n",
      "s">>

\* the substitution made for the empty string only
validated_query_EmptyOnly(q) ==
    IF q = <<>> THEN default_query ELSE q

\* main.py 154-155: if not query or query.strip() == "": query = <default>
validated_query(q) ==
    IF q = <<>> \/ Strip(q) = <<>> THEN default_query ELSE q

\* main.py 174, 204; celery_worker.py 62: the query run_financial_crew is
\* called with, query.strip(), in the handler and, through the task's
\* arguments, in the worker
crew_query(q) == Strip(validated_query(q))

\* a query of whitespace only: ' \n\t '
q_blank ==
    <<" ", "\n", "	", " ">>

\* one blank: ' '
q_space ==
    <<" ">>

\* a question with blanks around it: '  Is the dividend safe? '
q_padded ==
    <<" ", " ", "I", "s", " ", "t", "h", "e", " ", "d", "i", "v", "i", "d",
      "e", "n", "d", " ", "s", "a", "f", "e", "?", " ">>

\* a question: 'Summarize revenue.'
q_plain ==
    <<"S", "u", "m", "m", "a", "r", "i", "z", "e", " ", "r", "e", "v", "e",
      "n", "u", "e", ".">>

\* the queries a form is taken to hold
Queries == {<<>>, q_blank, q_space, q_padded, q_plain}

\* a submission's query before the handler has looked at it
NoQuery == [form |-> <<>>, crew |-> Null]

(* ---------------------------- GET /health ------------------------------ *)

\* what inspect.stats() does: returns the workers' statistics, returns None
\* (no worker answered), or raises
Stats == {"some", "none", "raises"}

\* health_check, except that an unreachable database fails the endpoint
health_check_FailsOnDatabase(celery, dbOk, redisOk, stats) ==
    IF ~dbOk
    THEN [code |-> 500, status |-> "error", database |-> "error",
          redis |-> "absent", celery |-> "absent"]
    ELSE [code |-> 200, status |-> "healthy", database |-> "connected",
          redis |-> IF ~celery THEN "absent"
                    ELSE IF redisOk THEN "connected" ELSE "error",
          celery |-> IF ~celery THEN "absent"
                     ELSE IF stats = "raises" THEN "error"
                     ELSE IF stats = "some" THEN "running" ELSE "no workers"]

\* main.py 386-426: every probe sits in its own try/except Exception, and
\* the dict is returned (200).  "absent": the key is not in the dict.
health_check(celery, dbOk, redisOk, stats) ==
    [code |-> 200,
     status |-> "healthy",
     database |-> IF dbOk THEN "connected" ELSE "error",
     redis |-> IF ~celery THEN "absent"
               ELSE IF redisOk THEN "connected" ELSE "error",
     celery |-> IF ~celery THEN "absent"
                ELSE IF stats = "raises" THEN "error"
                ELSE IF stats = "some" THEN "running" ELSE "no workers"]

\* the surroundings of one GET /health call, not answered yet
HealthInputs ==
    [db : BOOLEAN, redis : BOOLEAN, stats : Stats, response : {NoData}]

NoHealth == [db |-> TRUE, redis |-> TRUE, stats |-> "some", response |-> NoData]

(* ------------------- tools.py: read_data_tool -------------------------- *)

Digits == <<"0", "1", "2", "3", "4", "5", "6", "7", "8", "9">>

RECURSIVE IntStr(_)
\* str(n) for an int n >= 0
IntStr(n) ==
    IF n < 10 THEN <<Digits[n + 1]>>
    ELSE IntStr(n \div 10) \o <<Digits[(n % 10) + 1]>>

RECURSIVE ReplaceOnce(_)
\* s.replace("\n\n", "\n"): one pass from the left over non-overlapping
\* occurrences
ReplaceOnce(s) ==
    IF Len(s) < 2 THEN s
    ELSE IF s[1] = "\n" /\ s[2] = "\n"
    THEN <<"\n">> \o ReplaceOnce(SubSeq(s, 3, Len(s)))
    ELSE <<s[1]>> \o ReplaceOnce(SubSeq(s, 2, Len(s)))

RECURSIVE CollapseNewlines(_)
\* tools.py 30-31: while "\n\n" in page_content: replace it by "\n"
CollapseNewlines(s) ==
    IF Contains(s, <<"\n", "\n">>) THEN CollapseNewlines(ReplaceOnce(s))
    ELSE s

\* tools.py 13: the path read
s_path ==
    <<"d", "a", "t", "a", "/", "s", "a", "m", "p", "l", "e", ".", "p", "d",
      "f">>

\* tools.py 32, 34: '\n--- Page '
s_page_open ==
    <<"\n", "-", "-", "-", " ", "P", "a", "g", "e", " ">>

\* tools.py 32: ' ---\n'
s_page_close ==
    <<" ", "-", "-", "-", "\n">>

\* tools.py 34: ' (Reading Error: '
s_reading_error ==
    <<" ", "(", "R", "e", "a", "d", "i", "n", "g", " ", "E", "r", "r", "o",
      "r", ":", " ">>

\* tools.py 34: ') ---\n'
s_error_close ==
    <<")", " ", "-", "-", "-", "\n">>

\* tools.py 19
s_not_found ==
    <<"E", "r", "r", "o", "r", ":", " ", "F", "i", "l", "e", " ", "n", "o",
      "t", " ", "f", "o", "u", "n", "d", " ", "a", "t", " ", "p", "a", "t",
      "h", ":", " ">>

\* tools.py 37
s_no_text ==
    <<"E", "r", "r", "o", "r", ":", " ", "N", "o", " ", "r", "e", "a", "d",
      "a", "b", "l", "e", " ", "t", "e", "x", "t", " ", "f", "o", "u", "n",
      "d", " ", "i", "n", " ", "P", "D", "F">>

\* tools.py 55
s_error_reading ==
    <<"E", "r", "r", "o", "r", " ", "r", "e", "a", "d", "i", "n", "g", " ",
      "P", "D", "F", ":", " ">>

\* tools.py 42-44
s_meta_pages ==
    <<"\n", "D", "o", "c", "u", "m", "e", "n", "t", " ", "A", "n", "a",
      "l", "y", "s", "i", "s", " ", "S", "u", "m", "m", "a", "r", "y", ":",
      "\n", "-", " ", "T", "o", "t", "a", "l", " ", "P", "a", "g", "e",
      "s", ":", " ">>

\* tools.py 45
s_meta_path ==
    <<"\n", "-", " ", "F", "i", "l", "e", " ", "P", "a", "t", "h", ":",
      " ">>

\* tools.py 46
s_meta_length ==
    <<"\n", "-", " ", "C", "o", "n", "t", "e", "n", "t", " ", "L", "e",
      "n", "g", "t", "h", ":", " ">>

\* tools.py 46-51
s_meta_status ==
    <<" ", "c", "h", "a", "r", "a", "c", "t", "e", "r", "s", "\n", "-",
      " ", "P", "r", "o", "c", "e", "s", "s", "i", "n", "g", " ", "S", "t",
      "a", "t", "u", "s", ":", " ", "S", "u", "c", "c", "e", "s", "s", "f",
      "u", "l", "l", "y", " ", "e", "x", "t", "r", "a", "c", "t", "e", "d",
      " ", "t", "e", "x", "t", " ", "c", "o", "n", "t", "e", "n", "t",
      "\n", "\n", "F", "i", "n", "a", "n", "c", "i", "a", "l", " ", "D",
      "o", "c", "u", "m", "e", "n", "t", " ", "C", "o", "n", "t", "e", "n",
      "t", ":", "\n">>

\* tools.py 25-34: what one page adds to full_report.  A page is what
\* page.extract_text() does: raises (with a message) or returns a text.
page_block(page_num, page) ==
    IF page.raises
    THEN s_page_open \o IntStr(page_num) \o s_reading_error \o page.error
            \o s_error_close
    ELSE IF Strip(page.text) # <<>>
    THEN s_page_open \o IntStr(page_num) \o s_page_close
            \o CollapseNewlines(page.text) \o <<"\n">>
    ELSE <<>>

RECURSIVE pages_report(_, _)
\* tools.py 23-34: full_report after the first k pages
pages_report(pages, k) ==
    IF k = 0 THEN <<>>
    ELSE pages_report(pages, k - 1) \o page_block(k, pages[k])

\* tools.py 42-52: the text returned for a document with some content
metadata(pages, full_report) ==
    s_meta_pages \o IntStr(Len(pages)) \o s_meta_path \o s_path
       \o s_meta_length \o IntStr(Len(full_report)) \o s_meta_status
       \o full_report \o <<"\n">>

\* read_data_tool, except that the first page that fails to read ends the
\* extraction as an error
read_data_tool_AbortsOnPageError(doc) ==
    IF ~doc.exists THEN s_not_found \o s_path
    ELSE IF ~doc.opens THEN s_error_reading \o doc.error
    ELSE IF \E k \in 1..Len(doc.pages) : doc.pages[k].raises
    THEN s_error_reading
            \o doc.pages[MinOf({k \in 1..Len(doc.pages) :
                                  doc.pages[k].raises})].error
    ELSE IF Strip(pages_report(doc.pages, Len(doc.pages))) = <<>>
    THEN s_no_text
    ELSE metadata(doc.pages, pages_report(doc.pages, Len(doc.pages)))

\* tools.py 13-55.  A document is the file: whether it exists, whether
\* pypdf.PdfReader opens it (else the message it raises with), its pages.
read_data_tool(doc) ==
    IF ~doc.exists THEN s_not_found \o s_path
    ELSE IF ~doc.opens THEN s_error_reading \o doc.error
    ELSE IF Strip(pages_report(doc.pages, Len(doc.pages))) = <<>>
    THEN s_no_text
    ELSE metadata(doc.pages, pages_report(doc.pages, Len(doc.pages)))

\* a page of text: 'Revenue rose 4%.'
p_text_revenue ==
    <<"R", "e", "v", "e", "n", "u", "e", " ", "r", "o", "s", "e", " ", "4",
      "%", ".">>

\* a page with runs of blank lines: 'Costs\n\n\nup\n\nagain'
p_text_gaps ==
    <<"C", "o", "s", "t", "s", "\n", "\n", "\n", "u", "p", "\n", "\n", "a",
      "g", "a", "i", "n">>

\* a page of whitespace: ' \n '
p_text_blank ==
    <<" ", "\n", " ">>

\* the message a page fails with: 'bad xref'
e_bad_xref ==
    <<"b", "a", "d", " ", "x", "r", "e", "f">>

\* the message PdfReader fails with: 'EOF marker not found'
e_no_eof ==
    <<"E", "O", "F", " ", "m", "a", "r", "k", "e", "r", " ", "n", "o", "t",
      " ", "f", "o", "u", "n", "d">>

\* the pages a document is made of: readable ones (with text, with blank
\* lines, blank, empty) and one that fails to read
Pages ==
    {[raises |-> FALSE, text |-> t, error |-> <<>>] :
        t \in {p_text_revenue, p_text_gaps, p_text_blank, <<>>}}
    \cup {[raises |-> TRUE, text |-> <<>>, error |-> e_bad_xref]}

\* the files read_data_tool is called on: missing, not a PDF, and every
\* document of at most MaxPages pages
Documents ==
    {[exists |-> FALSE, opens |-> FALSE, error |-> <<>>, pages |-> <<>>],
     [exists |-> TRUE, opens |-> FALSE, error |-> e_no_eof, pages |-> <<>>]}
    \cup {[exists |-> TRUE, opens |-> TRUE, error |-> <<>>, pages |-> ps] :
             ps \in UNION {[1..n -> Pages] : n \in 0..MaxPages}}

\* a file before read_data_tool has been called on it
NoDocument ==
    [file |-> [exists |-> FALSE, opens |-> FALSE, error |-> <<>>,
               pages |-> <<>>],
     returned |-> Null]

(* ----------------- table financial_analyses: columns ------------------- *)

\* main.py 31-49: the columns of the table the startup handler creates
startup_columns ==
    {"id", "job_id", "user_id", "document_path", "document_name", "status",
     "market_research_summary", "financial_metrics_analysis",
     "investment_recommendation", "risk_assessment", "verification_report",
     "full_analysis_report", "confidence_rating", "processing_duration",
     "error_message", "created_at", "completed_at"}

\* models.py 10-15: INSERT (...) RETURNING analysis_id, job_id
create_columns ==
    {"job_id", "user_id", "document_path", "document_name", "status",
     "analysis_id"}

\* models.py 27-31: UPDATE SET status, error_message, updated_at WHERE job_id
update_columns == {"status", "error_message", "updated_at", "job_id"}

\* models.py 42-57: UPDATE SET the seven outputs, status, processing_duration,
\* completed_at, updated_at WHERE job_id
store_columns ==
    {"market_research_summary", "financial_metrics_analysis",
     "investment_recommendation", "risk_assessment", "verification_report",
     "full_analysis_report", "confidence_rating", "status",
     "processing_duration", "completed_at", "updated_at", "job_id"}

\* models.py 78: SELECT * ... WHERE job_id
select_columns == {"job_id"}

\* a statement that names a column the table does not have is rejected by
\* the database (psycopg2 raises) and changes nothing
accepted(columns, tbl) == columns \subseteq tbl

\* main.py 31: CREATE TABLE IF NOT EXISTS leaves a table that is already
\* there as it is: the table is the one startup creates, or an earlier one
\* that has the columns the statements of models.py name
Tables ==
    {startup_columns,
     startup_columns \cup create_columns \cup update_columns
        \cup store_columns}

(* ------------------------------- Init --------------------------------- *)

\* the job lifecycle after the process has started
JobsInit ==
    /\ useCelery \in BOOLEAN
    /\ content = "none"
    /\ pc = [r \in Reqs |-> "idle"]
    /\ jid = [r \in Reqs |-> NoJob]
    /\ resp = [r \in Reqs |-> "none"]
    /\ store = [j \in JobIds |-> NoRec]
    /\ files = {}
    /\ wpc = [r \in Reqs |-> "none"]
    /\ reg = [r \in Reqs |-> "PENDING"]
    /\ pipe = [r \in Reqs |-> "no"]
    /\ wfail = [r \in Reqs |-> {}]
    /\ termTried = {}
    /\ delTried = {}

\* no pipeline result is followed through its derivation here
Init ==
    /\ JobsInit
    /\ tph = "jobs"
    /\ result = NoData
    /\ analysis_data = NoData
    /\ row = NoData
    /\ saved_analysis = NoData
    /\ section = NoData
    /\ query = NoData
    /\ health_status = NoData
    /\ document = NoData
    /\ table = NoData

\* one pipeline result about to be turned into fields, one hand-made dict
\* about to be stored, one query about to be validated, one GET /health
\* call or one file about to be read
DataInit ==
    /\ JobsInit
    /\ row = NoRow
    /\ saved_analysis = NoRow
    /\ section = NoSection
    /\ table \in Tables
    /\ \/ /\ tph = "result" /\ result \in Results /\ analysis_data = NoData
          /\ query = NoQuery /\ health_status = NoHealth
          /\ document = NoDocument
       \/ /\ tph = "derived" /\ result = NoResult
          /\ analysis_data \in FakeData
          /\ query = NoQuery /\ health_status = NoHealth
          /\ document = NoDocument
       \/ /\ tph = "form" /\ result = NoResult /\ analysis_data = NoData
          /\ query \in [form : Queries, crew : {Null}]
          /\ health_status = NoHealth /\ document = NoDocument
       \/ /\ tph = "health" /\ result = NoResult /\ analysis_data = NoData
          /\ query = NoQuery /\ health_status \in HealthInputs
          /\ document = NoDocument
       \/ /\ tph = "file" /\ result = NoResult /\ analysis_data = NoData
          /\ query = NoQuery /\ health_status = NoHealth
          /\ document \in [file : Documents, returned : {Null}]

(* ----------------------- POST /analyze handler ------------------------ *)

\* main.py 149: content = await file.read(), a document or zero bytes
Uploads == {"data", "empty"}

\* main.py 133-151: reject a non-.pdf name with 400 before anything exists;
\* otherwise draw job_id = str(uuid.uuid4())[:8], read the upload and save
\* it, whatever its length, to data/financial_document_<job_id>.pdf.  Nothing
\* checks the drawn id against the ids already handed out, so any value of
\* the id space may come back (ids are opaque: they are numbered in the
\* order they first appear).
Submit(r) ==
    /\ pc[r] = "idle"
    /\ \A q \in 1..(r-1) : pc[q] = "returned"
    /\ \E pdf \in BOOLEAN, bytes \in Uploads :
         IF ~pdf
         THEN /\ pc' = [pc EXCEPT ![r] = "returned"]
              /\ resp' = [resp EXCEPT ![r] = "400"]
              /\ UNCHANGED <<jid, files, content>>
         ELSE \E j \in JobIds :
                /\ \A k \in 1..(j-1) : \E q \in Reqs : jid[q] = k
                /\ jid' = [jid EXCEPT ![r] = j]
                /\ files' = files \cup {j}
                /\ content' = bytes
                /\ pc' = [pc EXCEPT ![r] = "create"]
                /\ UNCHANGED resp
    /\ UNCHANGED <<dvars, useCelery, store, wpc, reg, pipe, wfail, termTried, delTried>>

\* Create with the record marked processing as soon as it has been created.
Create_WritesProcessing(r) ==
    /\ pc[r] = "create"
    /\ \E dbOk \in BOOLEAN :
         IF dbOk /\ ~CreateRejected(store, jid[r])
         THEN /\ store' = update_analysis_status(
                             create_analysis_record(store, jid[r]), jid[r],
                             "processing", "null")
              /\ UNCHANGED wfail
         ELSE UNCHANGED <<store, wfail>>
    /\ pc' = [pc EXCEPT ![r] = IF useCelery THEN "enqueue" ELSE "markProcessing"]
    /\ UNCHANGED <<dvars, useCelery, content, jid, resp, files, wpc, reg, pipe, termTried, delTried>>

\* main.py 157-170: create the record; a failure is printed and swallowed.
\* Then branch on USE_CELERY.
Create(r) ==
    /\ pc[r] = "create"
    /\ \E dbOk \in BOOLEAN :
         IF dbOk /\ ~CreateRejected(store, jid[r])
         THEN /\ store' = create_analysis_record(store, jid[r])
              /\ UNCHANGED wfail
         ELSE UNCHANGED <<store, wfail>>
    /\ pc' = [pc EXCEPT ![r] = IF useCelery THEN "enqueue" ELSE "markProcessing"]
    /\ UNCHANGED <<dvars, useCelery, content, jid, resp, files, wpc, reg, pipe, termTried, delTried>>

\* Enqueue with the task called in place (process_financial_document(...)
\* instead of .delay(...)): the job has run to its result when the call returns.
Enqueue_CallsTask(r) ==
    /\ pc[r] = "enqueue"
    /\ \E brokerOk \in BOOLEAN :
         IF brokerOk
         THEN /\ store' = store_complete_analysis(
                             create_analysis_record(store, jid[r]), jid[r])
              /\ wpc' = [wpc EXCEPT ![r] = "queued"]
              /\ resp' = [resp EXCEPT ![r] = "queued"]
         ELSE /\ resp' = [resp EXCEPT ![r] = "500"]
              /\ UNCHANGED <<wpc, store>>
    /\ pc' = [pc EXCEPT ![r] = "returned"]
    /\ content' = IF pc'[r] = "returned" THEN "none" ELSE content
    /\ UNCHANGED <<dvars, useCelery, jid, files, reg, pipe, wfail, termTried, delTried>>

\* main.py 172-192, 279-280: process_financial_document.delay(...); on success
\* return status "queued"; on failure raise HTTPException(500), which the
\* outer "except HTTPException: raise" passes on without any cleanup.
Enqueue(r) ==
    /\ pc[r] = "enqueue"
    /\ \E brokerOk \in BOOLEAN :
         IF brokerOk
         THEN /\ wpc' = [wpc EXCEPT ![r] = "queued"]
              /\ resp' = [resp EXCEPT ![r] = "queued"]
         ELSE /\ resp' = [resp EXCEPT ![r] = "500"]
              /\ UNCHANGED wpc
    /\ pc' = [pc EXCEPT ![r] = "returned"]
    /\ content' = IF pc'[r] = "returned" THEN "none" ELSE content
    /\ UNCHANGED <<dvars, useCelery, jid, store, files, reg, pipe, wfail, termTried, delTried>>

\* main.py 198-204: update_analysis_status(job_id, 'processing') sits inside
\* the try of line 198, so its failure lands in the except of line 266;
\* on success run_financial_crew is called next.
InlineMarkProcessing(r) ==
    /\ pc[r] = "markProcessing"
    /\ \E dbOk \in BOOLEAN :
         IF dbOk
         THEN /\ store' = update_analysis_status(store, jid[r], "processing", "null")
              /\ pipe' = [pipe EXCEPT ![r] = "running"]
              /\ pc' = [pc EXCEPT ![r] = "pipeline"]
              /\ UNCHANGED wfail
         ELSE /\ wfail' = [wfail EXCEPT ![r] = @ \cup {"processing"}]
              /\ pc' = [pc EXCEPT ![r] = "markFailed"]
              /\ UNCHANGED <<store, pipe>>
    /\ UNCHANGED <<dvars, useCelery, content, jid, resp, files, wpc, reg, termTried, delTried>>

\* InlinePipeline with the document removed as soon as the pipeline raises,
\* before the failure is written to the store.
InlinePipeline_RemovesOnRaise(r) ==
    /\ pc[r] = "pipeline"
    /\ \E ok \in BOOLEAN :
         /\ pipe' = [pipe EXCEPT ![r] = IF ok THEN "ok" ELSE "raised"]
         /\ pc' = [pc EXCEPT ![r] = IF ok THEN "store" ELSE "markFailed"]
         /\ files' = IF ok THEN files ELSE files \ {jid[r]}
         /\ delTried' = IF ok THEN delTried ELSE delTried \cup {r}
    /\ UNCHANGED <<dvars, useCelery, content, jid, resp, store, wpc, reg, wfail, termTried>>

\* main.py 204-236: run_financial_crew returns a result or raises; the field
\* derivation that follows does not touch the store or the file.  The call
\* gets the file's path as a prompt input (main.py 82-87, task.py 34-36);
\* the agents and tasks carry no tool (agents.py 20-68, task.py 7-78) and
\* read_data_tool hands its failures back as text (tools.py 18-19, 36-37,
\* 54-55), so what the upload holds does not bear on the outcome.
InlinePipeline(r) ==
    /\ pc[r] = "pipeline"
    /\ \E ok \in BOOLEAN :
         /\ pipe' = [pipe EXCEPT ![r] = IF ok THEN "ok" ELSE "raised"]
         /\ pc' = [pc EXCEPT ![r] = IF ok THEN "store" ELSE "markFailed"]
    /\ UNCHANGED <<dvars, useCelery, content, jid, resp, store, files, wpc, reg, wfail, termTried, delTried>>

\* main.py 238-243: store_complete_analysis; a failure is printed and swallowed.
InlineStore(r) ==
    /\ pc[r] = "store"
    /\ termTried' = termTried \cup {r}
    /\ \E dbOk \in BOOLEAN :
         IF dbOk
         THEN /\ store' = store_complete_analysis(store, jid[r])
              /\ UNCHANGED wfail
         ELSE /\ wfail' = [wfail EXCEPT ![r] = @ \cup {"terminal"}]
              /\ UNCHANGED store
    /\ pc' = [pc EXCEPT ![r] = "cleanup"]
    /\ UNCHANGED <<dvars, useCelery, content, jid, resp, files, wpc, reg, pipe, delTried>>

\* main.py 245-264: if os.path.exists: os.remove; then return "completed".
\* os.remove is still inside the try of line 198: when it raises, control
\* goes to the except of line 266.
InlineCleanup(r) ==
    /\ pc[r] = "cleanup"
    /\ IF jid[r] \in files
       THEN /\ delTried' = delTried \cup {r}
            /\ \E rmOk \in BOOLEAN :
                 IF rmOk
                 THEN /\ files' = files \ {jid[r]}
                      /\ pc' = [pc EXCEPT ![r] = "returned"]
                      /\ resp' = [resp EXCEPT ![r] = "completed"]
                 ELSE /\ pc' = [pc EXCEPT ![r] = "markFailed"]
                      /\ UNCHANGED <<files, resp>>
       ELSE /\ pc' = [pc EXCEPT ![r] = "returned"]
            /\ resp' = [resp EXCEPT ![r] = "completed"]
            /\ UNCHANGED <<files, delTried>>
    /\ content' = IF pc'[r] = "returned" THEN "none" ELSE content
    /\ UNCHANGED <<dvars, useCelery, jid, store, wpc, reg, pipe, wfail, termTried>>

\* InlineMarkFailed without the write: the failure is only reported to the
\* caller.
InlineMarkFailed_NoWrite(r) ==
    /\ pc[r] = "markFailed"
    /\ termTried' = termTried \cup {r}
    /\ pc' = [pc EXCEPT ![r] = "cleanupFailed"]
    /\ UNCHANGED <<dvars, useCelery, content, jid, resp, store, files, wpc, reg, pipe, wfail, delTried>>

\* main.py 266-271: update_analysis_status(job_id, 'failed', str(error));
\* a failure is swallowed by the bare except.
InlineMarkFailed(r) ==
    /\ pc[r] = "markFailed"
    /\ termTried' = termTried \cup {r}
    /\ \E dbOk \in BOOLEAN :
         IF dbOk
         THEN /\ store' = update_analysis_status(store, jid[r], "failed", "msg")
              /\ UNCHANGED wfail
         ELSE /\ wfail' = [wfail EXCEPT ![r] = @ \cup {"terminal"}]
              /\ UNCHANGED store
    /\ pc' = [pc EXCEPT ![r] = "cleanupFailed"]
    /\ UNCHANGED <<dvars, useCelery, content, jid, resp, files, wpc, reg, pipe, delTried>>

\* main.py 273-277: if os.path.exists: os.remove; raise HTTPException(500).
\* An os.remove that raises here leaves the handler of line 266 as a plain
\* exception, caught by the outer except of line 281.
InlineCleanupFailed(r) ==
    /\ pc[r] = "cleanupFailed"
    /\ IF jid[r] \in files
       THEN /\ delTried' = delTried \cup {r}
            /\ \E rmOk \in BOOLEAN :
                 IF rmOk
                 THEN /\ files' = files \ {jid[r]}
                      /\ pc' = [pc EXCEPT ![r] = "returned"]
                      /\ resp' = [resp EXCEPT ![r] = "500"]
                 ELSE /\ pc' = [pc EXCEPT ![r] = "outerCleanup"]
                      /\ UNCHANGED <<files, resp>>
       ELSE /\ pc' = [pc EXCEPT ![r] = "returned"]
            /\ resp' = [resp EXCEPT ![r] = "500"]
            /\ UNCHANGED <<files, delTried>>
    /\ content' = IF pc'[r] = "returned" THEN "none" ELSE content
    /\ UNCHANGED <<dvars, useCelery, jid, store, wpc, reg, pipe, wfail, termTried>>

\* main.py 281-292: one more os.remove, its failure swallowed; then 500.
InlineOuterCleanup(r) ==
    /\ pc[r] = "outerCleanup"
    /\ IF jid[r] \in files
       THEN /\ delTried' = delTried \cup {r}
            /\ \E rmOk \in BOOLEAN :
                 files' = IF rmOk THEN files \ {jid[r]} ELSE files
       ELSE UNCHANGED <<files, delTried>>
    /\ pc' = [pc EXCEPT ![r] = "returned"]
    /\ resp' = [resp EXCEPT ![r] = "500"]
    /\ content' = IF pc'[r] = "returned" THEN "none" ELSE content
    /\ UNCHANGED <<dvars, useCelery, jid, store, wpc, reg, pipe, wfail, termTried>>

(* ---------------------------- worker task ----------------------------- *)

\* celery_worker.py 29-43: a worker has taken the task; it first tries to
\* create the record again (the handler already tried); failure is swallowed.
WorkerCreate(r) ==
    /\ wpc[r] = "queued"
    /\ \E dbOk \in BOOLEAN :
         IF dbOk /\ ~CreateRejected(store, jid[r])
         THEN /\ store' = create_analysis_record(store, jid[r])
              /\ UNCHANGED wfail
         ELSE UNCHANGED <<store, wfail>>
    /\ wpc' = [wpc EXCEPT ![r] = "markProcessing"]
    /\ UNCHANGED <<dvars, useCelery, content, pc, jid, resp, files, reg, pipe, termTried, delTried>>

\* celery_worker.py 45-50: update_analysis_status(analysis_id, 'processing')
\* in its own try/except: a failure is printed and swallowed.
WorkerMarkProcessing(r) ==
    /\ wpc[r] = "markProcessing"
    /\ \E dbOk \in BOOLEAN :
         IF dbOk
         THEN /\ store' = update_analysis_status(store, jid[r], "processing", "null")
              /\ UNCHANGED wfail
         ELSE /\ wfail' = [wfail EXCEPT ![r] = @ \cup {"processing"}]
              /\ UNCHANGED store
    /\ wpc' = [wpc EXCEPT ![r] = "updateState"]
    /\ UNCHANGED <<dvars, useCelery, content, pc, jid, resp, files, reg, pipe, termTried, delTried>>

\* celery_worker.py 54-62: self.update_state(state='PROGRESS') on the task's
\* own id, then run_financial_crew is called.  update_state sits inside the
\* try of line 54: a backend failure lands in the except of line 179.
WorkerUpdateState(r) ==
    /\ wpc[r] = "updateState"
    /\ \E backendOk \in BOOLEAN :
         IF backendOk
         THEN /\ reg' = [reg EXCEPT ![r] = "PROGRESS"]
              /\ pipe' = [pipe EXCEPT ![r] = "running"]
              /\ wpc' = [wpc EXCEPT ![r] = "pipeline"]
         ELSE /\ wpc' = [wpc EXCEPT ![r] = "markFailed"]
              /\ pipe' = [pipe EXCEPT ![r] = "unreached"]
              /\ UNCHANGED reg
    /\ UNCHANGED <<dvars, useCelery, content, pc, jid, resp, store, files, wfail, termTried, delTried>>

\* celery_worker.py 62-142: run_financial_crew returns a result or raises.
WorkerPipeline(r) ==
    /\ wpc[r] = "pipeline"
    /\ \E ok \in BOOLEAN :
         /\ pipe' = [pipe EXCEPT ![r] = IF ok THEN "ok" ELSE "raised"]
         /\ wpc' = [wpc EXCEPT ![r] = IF ok THEN "store" ELSE "markFailed"]
    /\ UNCHANGED <<dvars, useCelery, content, pc, jid, resp, store, files, reg, wfail, termTried, delTried>>

\* celery_worker.py 144-166: store_complete_analysis, failure swallowed; the
\* read-back that follows only prints.
WorkerStore(r) ==
    /\ wpc[r] = "store"
    /\ termTried' = termTried \cup {r}
    /\ \E dbOk \in BOOLEAN :
         IF dbOk
         THEN /\ store' = store_complete_analysis(store, jid[r])
              /\ UNCHANGED wfail
         ELSE /\ wfail' = [wfail EXCEPT ![r] = @ \cup {"terminal"}]
              /\ UNCHANGED store
    /\ wpc' = [wpc EXCEPT ![r] = "cleanup"]
    /\ UNCHANGED <<dvars, useCelery, content, pc, jid, resp, files, reg, pipe, delTried>>

\* celery_worker.py 168-177: if os.path.exists: os.remove, inside the try of
\* line 54, so a raise lands in the except of line 179; otherwise the task
\* returns and Celery records SUCCESS.
WorkerCleanup(r) ==
    /\ wpc[r] = "cleanup"
    /\ IF jid[r] \in files
       THEN /\ delTried' = delTried \cup {r}
            /\ \E rmOk \in BOOLEAN :
                 IF rmOk
                 THEN /\ files' = files \ {jid[r]}
                      /\ wpc' = [wpc EXCEPT ![r] = "done"]
                      /\ reg' = [reg EXCEPT ![r] = "SUCCESS"]
                 ELSE /\ wpc' = [wpc EXCEPT ![r] = "markFailed"]
                      /\ UNCHANGED <<files, reg>>
       ELSE /\ wpc' = [wpc EXCEPT ![r] = "done"]
            /\ reg' = [reg EXCEPT ![r] = "SUCCESS"]
            /\ UNCHANGED <<files, delTried>>
    /\ UNCHANGED <<dvars, useCelery, content, pc, jid, resp, store, pipe, wfail, termTried>>

\* celery_worker.py 179-190: update_analysis_status(analysis_id, 'failed',
\* str(e)); a failure is printed and swallowed.
WorkerMarkFailed(r) ==
    /\ wpc[r] = "markFailed"
    /\ termTried' = termTried \cup {r}
    /\ \E dbOk \in BOOLEAN :
         IF dbOk
         THEN /\ store' = update_analysis_status(store, jid[r], "failed", "msg")
              /\ UNCHANGED wfail
         ELSE /\ wfail' = [wfail EXCEPT ![r] = @ \cup {"terminal"}]
              /\ UNCHANGED store
    /\ wpc' = [wpc EXCEPT ![r] = "cleanupFailed"]
    /\ UNCHANGED <<dvars, useCelery, content, pc, jid, resp, files, reg, pipe, delTried>>

\* celery_worker.py 192-199: os.remove with its failure swallowed, then
\* update_state(state='FAILURE') and re-raise: the task ends in FAILURE.
WorkerCleanupFailed(r) ==
    /\ wpc[r] = "cleanupFailed"
    /\ IF jid[r] \in files
       THEN /\ delTried' = delTried \cup {r}
            /\ \E rmOk \in BOOLEAN :
                 files' = IF rmOk THEN files \ {jid[r]} ELSE files
       ELSE UNCHANGED <<files, delTried>>
    /\ wpc' = [wpc EXCEPT ![r] = "done"]
    /\ reg' = [reg EXCEPT ![r] = "FAILURE"]
    /\ UNCHANGED <<dvars, useCelery, content, pc, jid, resp, store, pipe, wfail, termTried>>

(* ------------------------- GET /status/{job_id} ----------------------- *)

\* A Celery task id is the uuid .delay() generates for the task (main.py 174
\* passes none of its own); the 8-character job ids are other strings.
TaskId(r) == NumJobIds + r

\* celery_app.AsyncResult(id).state: the recorded state of the task with that
\* id; an id the backend holds nothing for reads as PENDING.
AsyncResultState(id) ==
    IF \E r \in Reqs : TaskId(r) = id /\ wpc[r] # "none"
    THEN reg[CHOOSE r \in Reqs : TaskId(r) = id]
    ELSE "PENDING"

\* result.state.lower()
Lower(state) ==
    CASE state = "PENDING" -> "pending"
      [] state = "PROGRESS" -> "progress"
      [] state = "SUCCESS" -> "success"
      [] state = "FAILURE" -> "failure"

\* the ids GET /status/<id> is asked about: job ids and Celery task ids
TaskIds == {TaskId(r) : r \in Reqs}

\* main.py 349-373: the payload built from the result backend: the status is
\* result.state.lower(); SUCCESS carries result.result, FAILURE result.info.
registry_payload(id) ==
    [job |-> id, code |-> 200, status |-> Lower(AsyncResultState(id)),
     src |-> "registry",
     body |-> CASE AsyncResultState(id) = "SUCCESS" -> "result"
                [] AsyncResultState(id) = "FAILURE" -> "error"
                [] OTHER -> "status",
     result |-> "null", error |-> "null"]

\* record_payload without the branch for 'failed': a failed row is answered
\* like a row in progress
record_payload_NoFailedBranch(j, rec) ==
    CASE rec.status = "completed" ->
           [job |-> j, code |-> 200, status |-> "completed", src |-> "store",
            body |-> "result", result |-> rec.out, error |-> "null"]
      [] OTHER ->
           [job |-> j, code |-> 200, status |-> rec.status, src |-> "store",
            body |-> "status", result |-> "null", error |-> "null"]

\* main.py 302-344: the payload built from a row of the store: the output
\* columns and the processing summary when the status is 'completed', the
\* error_message and the retry suggestion when it is 'failed', the stored
\* status as it is otherwise.
record_payload(j, rec) ==
    CASE rec.status = "completed" ->
           [job |-> j, code |-> 200, status |-> "completed", src |-> "store",
            body |-> "result", result |-> rec.out, error |-> "null"]
      [] rec.status = "failed" ->
           [job |-> j, code |-> 200, status |-> "failed", src |-> "store",
            body |-> "error", result |-> "null", error |-> rec.err]
      [] OTHER ->
           [job |-> j, code |-> 200, status |-> rec.status, src |-> "store",
            body |-> "status", result |-> "null", error |-> "null"]

\* main.py 294-384: the payload of GET /status/<j> when the store read
\* succeeds or not (dbOk) and the result backend answers or not (backendOk).
get_job_status(j, dbOk, backendOk) ==
    IF dbOk /\ j \in JobIds /\ get_analysis_by_job_id(store, j) # NoRec
    THEN record_payload(j, get_analysis_by_job_id(store, j))
    ELSE IF useCelery /\ backendOk
    THEN registry_payload(j)
    ELSE [job |-> j, code |-> 404, status |-> "none", src |-> "none",
          body |-> "none", result |-> "null", error |-> "null"]

(* ------------------------------ Next ---------------------------------- *)

Next ==
    \/ \E r \in Reqs : Submit(r)
    \/ \E r \in Reqs : Create(r)
    \/ \E r \in Reqs : Enqueue(r)
    \/ \E r \in Reqs : InlineMarkProcessing(r)
    \/ \E r \in Reqs : InlinePipeline(r)
    \/ \E r \in Reqs : InlineStore(r)
    \/ \E r \in Reqs : InlineCleanup(r)
    \/ \E r \in Reqs : InlineMarkFailed(r)
    \/ \E r \in Reqs : InlineCleanupFailed(r)
    \/ \E r \in Reqs : InlineOuterCleanup(r)
    \/ \E r \in Reqs : WorkerCreate(r)
    \/ \E r \in Reqs : WorkerMarkProcessing(r)
    \/ \E r \in Reqs : WorkerUpdateState(r)
    \/ \E r \in Reqs : WorkerPipeline(r)
    \/ \E r \in Reqs : WorkerStore(r)
    \/ \E r \in Reqs : WorkerCleanup(r)
    \/ \E r \in Reqs : WorkerMarkFailed(r)
    \/ \E r \in Reqs : WorkerCleanupFailed(r)

Spec == Init /\ [][Next]_vars

\* every step of r's handler and of r's worker task, the submission excepted
Run(r) ==
    \/ Create(r) \/ Enqueue(r)
    \/ InlineMarkProcessing(r) \/ InlinePipeline(r) \/ InlineStore(r)
    \/ InlineCleanup(r) \/ InlineMarkFailed(r) \/ InlineCleanupFailed(r)
    \/ InlineOuterCleanup(r)
    \/ WorkerCreate(r) \/ WorkerMarkProcessing(r) \/ WorkerUpdateState(r)
    \/ WorkerPipeline(r) \/ WorkerStore(r) \/ WorkerCleanup(r)
    \/ WorkerMarkFailed(r) \/ WorkerCleanupFailed(r)

\* A started handler runs to its return, a queued task is taken by a worker
\* and runs to its end, and every call made on the way (the pipeline call
\* included) returns or raises.  Nobody is obliged to submit.
FairSpec == Spec /\ \A r \in Reqs : WF_vars(Run(r))

(* --------------- field derivation and store round trip ---------------- *)

\* main.py 207-234 when USE_CELERY is false, celery_worker.py 67-130 when it
\* is true: the dict built from the pipeline result.
DeriveFields ==
    /\ tph = "result"
    /\ analysis_data' = IF useCelery THEN worker_analysis_data(result)
                        ELSE inline_analysis_data(result)
    /\ tph' = "derived"
    /\ UNCHANGED <<jvars, result, row, saved_analysis, section,
                 query, health_status, document, table>>

\* one call extract_section(full_report, name) on the raw text of the
\* result; start and end are the call's start_pos and end_pos (-1 when it
\* returns before computing them)
ExtractSection ==
    /\ tph = "result"
    /\ result.has_raw
    /\ \E name \in SectionNames :
         LET found == result.raw # <<>> /\ start_pos(result.raw, name) # -1
         IN  section' =
               [text |-> result.raw, name |-> name,
                value |-> extract_section(result.raw, name),
                start |-> IF found THEN start_pos(result.raw, name) ELSE -1,
                end |-> IF found THEN end_pos(result.raw, name) ELSE -1]
    /\ tph' = "extracted"
    /\ UNCHANGED <<jvars, result, analysis_data, row, saved_analysis,
                 query, health_status, document, table>>

\* testdatabase.py 33-38, main.py 159: create_analysis_record; the
\* statement may raise (database unreachable: "raised"; a column it names
\* is not in the table: "rejected"), which ends the round trip.
RoundTripCreate ==
    /\ tph = "derived"
    /\ \E dbOk \in BOOLEAN :
         IF ~dbOk THEN tph' = "raised" /\ UNCHANGED row
         ELSE IF ~accepted(create_columns, table)
         THEN tph' = "rejected" /\ UNCHANGED row
         ELSE row' = insert_row /\ tph' = "created"
    /\ UNCHANGED <<jvars, result, analysis_data, saved_analysis, section,
                 query, health_status, document, table>>

\* testdatabase.py 42, main.py 200: update_analysis_status(job_id, 'processing')
RoundTripUpdate ==
    /\ tph = "created"
    /\ \E dbOk \in BOOLEAN :
         IF ~dbOk THEN tph' = "raised" /\ UNCHANGED row
         ELSE IF ~accepted(update_columns, table)
         THEN tph' = "rejected" /\ UNCHANGED row
         ELSE /\ row' = update_row(row, "processing", "null")
              /\ tph' = "processing"
    /\ UNCHANGED <<jvars, result, analysis_data, saved_analysis, section,
                 query, health_status, document, table>>

\* testdatabase.py 54, main.py 240: store_complete_analysis
RoundTripStore ==
    /\ tph = "processing"
    /\ \E dbOk \in BOOLEAN :
         IF ~dbOk THEN tph' = "raised" /\ UNCHANGED row
         ELSE IF ~accepted(store_columns, table)
         THEN tph' = "rejected" /\ UNCHANGED row
         ELSE /\ row' = store_row(row, analysis_data, "measured")
              /\ tph' = "stored"
    /\ UNCHANGED <<jvars, result, analysis_data, saved_analysis, section,
                 query, health_status, document, table>>

\* testdatabase.py 58, main.py 301: get_analysis_by_job_id
RoundTripGet ==
    /\ tph = "stored"
    /\ \E dbOk \in BOOLEAN :
         IF ~dbOk THEN tph' = "raised" /\ UNCHANGED saved_analysis
         ELSE IF ~accepted(select_columns, table)
         THEN tph' = "rejected" /\ UNCHANGED saved_analysis
         ELSE saved_analysis' = select_row(row) /\ tph' = "read"
    /\ UNCHANGED <<jvars, result, analysis_data, row, section,
                 query, health_status, document, table>>

\* main.py 153-155, 174, 204: the query is validated and handed to
\* run_financial_crew (directly, or through the task's arguments).
SubstituteQuery ==
    /\ tph = "form"
    /\ query' = [query EXCEPT !.crew = crew_query(query.form)]
    /\ tph' = "crew"
    /\ UNCHANGED <<jvars, result, analysis_data, row, saved_analysis, section,
                 health_status, document, table>>

\* main.py 386-426: one GET /health call
HealthCheck ==
    /\ tph = "health"
    /\ health_status' =
          [health_status EXCEPT
              !.response = health_check(useCelery, health_status.db,
                                        health_status.redis,
                                        health_status.stats)]
    /\ tph' = "answered"
    /\ UNCHANGED <<jvars, result, analysis_data, row, saved_analysis, section,
                 query, document, table>>

\* tools.py 13-55: one read_data_tool call
ReadData ==
    /\ tph = "file"
    /\ document' = [document EXCEPT !.returned = read_data_tool(document.file)]
    /\ tph' = "text"
    /\ UNCHANGED <<jvars, result, analysis_data, row, saved_analysis, section,
                 query, health_status, table>>

DataNext ==
    \/ DeriveFields
    \/ ExtractSection
    \/ RoundTripCreate
    \/ RoundTripUpdate
    \/ RoundTripStore
    \/ RoundTripGet
    \/ SubstituteQuery
    \/ HealthCheck
    \/ ReadData

DataSpec == DataInit /\ [][DataNext]_vars

(* --------------------------- vocabulary ------------------------------- *)

NonTerminal == {"pending", "processing"}

\* the handler has drawn a job id
Submitted(r) == jid[r] # NoJob

\* an orchestrator execution (inline handler past create, or worker task
\* taken from the queue) is under way for r's job
InFlight(r) ==
    \/ pc[r] \in {"markProcessing", "pipeline", "store", "cleanup",
                  "markFailed", "cleanupFailed", "outerCleanup"}
    \/ wpc[r] \in {"markProcessing", "updateState", "pipeline", "store",
                   "cleanup", "markFailed", "cleanupFailed"}

\* the queue refused the job: Enqueue ended the call with 500
EnqueueFailed(r) == useCelery /\ pc[r] = "returned" /\ resp[r] = "500"

\* handling of r's submitted job is over
Ended(r) ==
    /\ Submitted(r)
    /\ \/ ~useCelery /\ pc[r] = "returned"
       \/ wpc[r] = "done"
       \/ EnqueueFailed(r)

TypeOK ==
    /\ useCelery \in BOOLEAN
    /\ content \in Uploads \cup {"none"}
    /\ (content # "none") = (\E r \in Reqs : pc[r] \notin {"idle", "returned"})
    /\ jid \in [Reqs -> JobIds \cup {NoJob}]
    /\ resp \in [Reqs -> {"none", "400", "queued", "completed", "500"}]
    /\ \A j \in JobIds :
         \/ store[j] = NoRec
         \/ /\ store[j].status \in Statuses
            /\ store[j].out \in {"null", "set"}
            /\ store[j].err \in {"null", "msg"}
            /\ store[j].rows \in 1..MaxReq
    /\ files \subseteq JobIds
    /\ reg \in [Reqs -> {"PENDING", "PROGRESS", "SUCCESS", "FAILURE"}]
    /\ pipe \in [Reqs -> {"no", "running", "ok", "raised", "unreached"}]
    /\ wfail \in [Reqs -> SUBSET {"processing", "terminal"}]
    /\ termTried \subseteq Reqs
    /\ delTried \subseteq Reqs

(* ------------------------------ claims -------------------------------- *)

Rank(st) == CASE st = "pending" -> 0 [] st = "processing" -> 1 [] OTHER -> 2

\* C1 (as claimed): a record's status only moves forward along
\* pending -> processing -> completed | failed, and a write that finds the
\* record completed or failed leaves its status as it is.
C1_StatusMonotonic ==
    [][\A j \in JobIds :
          (store[j] # NoRec /\ store'[j].status # store[j].status)
             => /\ store[j].status \notin Terminal
                /\ Rank(store'[j].status) > Rank(store[j].status)]_vars

\* C2 (as claimed): a completed record has outputs and no error message, a
\* failed record has an error message and no outputs.
C2_TerminalExactlyOne ==
    \A j \in JobIds :
       /\ store[j].status = "completed"
             => store[j].out = "set" /\ store[j].err = "null"
       /\ store[j].status = "failed"
             => store[j].err = "msg" /\ store[j].out = "null"

\* C3 (as claimed): no two orchestrator executions are in flight for the
\* same job_id at the same time.
C3_OneExecutionPerJob ==
    \A r1, r2 \in Reqs :
       (r1 # r2 /\ InFlight(r1) /\ InFlight(r2)) => jid[r1] # jid[r2]

\* the call returned a job_id to its caller
Answered(r) == resp[r] \in {"queued", "completed"}

\* C4 (as claimed): every accepted submission receives a job_id that no
\* earlier submission received (here: none that was handed to a caller).
C4_FreshJobId ==
    \A r1, r2 \in Reqs :
       (r1 < r2 /\ Answered(r1) /\ Submitted(r2)) => jid[r1] # jid[r2]

\* r's job_id was drawn by no other submission
FreshId(r) == \A q \in Reqs \ {r} : jid[q] # jid[r]

\* the step ends r's /analyze call with a job_id handed to the caller
Returns(r) == pc[r] # "returned" /\ pc'[r] = "returned" /\ Answered(r)'

TerminalWriteFailed(j) == \E r \in Reqs : jid[r] = j /\ "terminal" \in wfail[r]

C7_PipelineStillRun ==
    \A r \in Reqs :
       (Ended(r) /\ store[jid[r]] # NoRec /\ wfail[r] = {"processing"})
          => pipe[r] \in {"ok", "raised", "unreached"}

\* C8: an execution calls os.remove only after it has issued its terminal
\* store write (store_complete_analysis, or update_analysis_status to
\* failed), and a document file disappears only through such a call.
C8_DeleteAfterTerminalWrite ==
    [][/\ \A r \in delTried' \ delTried : r \in termTried
       /\ \A j \in files \ files' :
             \E r \in delTried' : jid[r] = j /\ r \in termTried]_vars

\* C8 witness: the terminal write of an execution failed and the execution
\* has then removed the document.
C8_Witness ==
    \E r \in Reqs :
       /\ r \in delTried /\ r \in termTried
       /\ "terminal" \in wfail[r] /\ jid[r] \notin files

\* C9 (as claimed): on every path by which handling of a submitted job ends,
\* os.remove is attempted unless the file is already gone.
C9_DeletionAttempted ==
    \A r \in Reqs :
       Ended(r) => (r \in delTried \/ jid[r] \notin files)

\* C10 (as claimed): GET /status for a job_id no submission drew and the
\* store holds no record of answers 404, in inline and in queued mode,
\* whether or not the store read and the backend read succeed.
C10_UnknownIs404 ==
    \A j \in JobIds :
       ((\A r \in Reqs : jid[r] # j) /\ store[j] = NoRec)
          => \A dbOk \in BOOLEAN, backendOk \in BOOLEAN :
                get_job_status(j, dbOk, backendOk).code = 404

\* C11 (as claimed): in queued mode, with the store read failing or finding
\* no record, the status GET /status reports from the result backend is one
\* of pending, processing, completed, failed, for every id the backend is
\* asked about: every state name it holds is translated.
C11_RegistryStatusInVocabulary ==
    useCelery =>
       \A id \in JobIds \cup TaskIds :
          get_job_status(id, FALSE, TRUE).src = "registry"
             => get_job_status(id, FALSE, TRUE).status \in Statuses

\* C12 (as claimed): in queued mode with the store unreachable, GET /status
\* of a job id (drawn by one submission only) reports the state of that
\* job's own worker task: in progress once the task has recorded PROGRESS,
\* success with the result once Celery has recorded SUCCESS.
C12_ReportsOwnTask ==
    \A r \in Reqs :
       (useCelery /\ wpc[r] # "none" /\ FreshId(r)) =>
          /\ reg[r] = "PROGRESS"
                => get_job_status(jid[r], FALSE, TRUE).status
                      \in {"processing", "progress"}
          /\ reg[r] = "SUCCESS"
                => /\ get_job_status(jid[r], FALSE, TRUE).status
                         \in {"completed", "success"}
                   /\ get_job_status(jid[r], FALSE, TRUE).body = "result"

\* C13: for every record found in the store, GET /status answers with the
\* result and the timing summary exactly when the stored status is
\* completed, with the error message and the retry hint exactly when it is
\* failed, and with the stored status as it is otherwise; the status field
\* is the stored status in all three cases.
C13_PayloadFollowsStatus ==
    \A j \in JobIds :
       store[j] # NoRec =>
          LET payload == get_job_status(j, TRUE, TRUE)
          IN  /\ payload.code = 200
              /\ payload.src = "store"
              /\ payload.status = store[j].status
              /\ payload.body = "result" <=> store[j].status = "completed"
              /\ payload.body = "error" <=> store[j].status = "failed"
              /\ payload.body = "status" <=> store[j].status \in NonTerminal
              /\ store[j].status = "completed"
                    => payload.result = store[j].out
              /\ store[j].status = "failed"
                    => payload.error = store[j].err

\* C13 witness: the store holds a completed record, a failed record and both
\* are answered in their own shape.
C13_Witness ==
    \E j1, j2 \in JobIds :
       /\ store[j1].status = "completed" /\ store[j2].status = "failed"
       /\ get_job_status(j1, TRUE, TRUE).body = "result"
       /\ get_job_status(j2, TRUE, TRUE).body = "error"
       /\ get_job_status(j2, TRUE, TRUE).error = "msg"

\* the step is r's call of create_analysis_record (handler or worker)
CreateCall(r) ==
    \/ pc[r] = "create" /\ pc'[r] # "create"
    \/ wpc[r] = "queued" /\ wpc'[r] # "queued"

\* C14: a create on a job_id that has a record leaves the record as it is;
\* a record that appears is a single pending record without outputs or
\* error; and no job_id ever has more than one row, the worker's own create
\* attempt included.
C14_CreateOnce ==
    [][\A j \in JobIds :
          /\ \A r \in Reqs :
                (CreateCall(r) /\ jid[r] = j /\ store[j] # NoRec)
                   => store'[j] = store[j]
          /\ (store[j] = NoRec /\ store'[j] # NoRec)
                => /\ store'[j] = [status |-> "pending", out |-> "null",
                                   err |-> "null", rows |-> 1]
                   /\ \E r \in Reqs : CreateCall(r) /\ jid[r] = j
          /\ store'[j].rows <= 1]_vars

\* C14 witness: a worker has made its create attempt on a job_id whose
\* record was already completed, and the record is still the completed one.
C14_Witness ==
    \E r \in Reqs :
       /\ wpc[r] = "markProcessing"
       /\ store[jid[r]].status = "completed" /\ store[jid[r]].out = "set"
       /\ store[jid[r]].rows = 1

\* C15 (as claimed): update_status and store_result on a job_id without a
\* record fail.  Stated for the terminal write of an execution: when the job
\* has no record, that write is among the execution's failed writes.
C15_AbsentWriteFails ==
    \A r \in termTried :
       store[jid[r]] = NoRec => "terminal" \in wfail[r]

\* the step is r's call of update_analysis_status(job_id, 'processing'),
\* the call made without an error argument
UpdateCallWithoutError(r) ==
    \/ pc[r] = "markProcessing" /\ pc'[r] # "markProcessing"
    \/ wpc[r] = "markProcessing" /\ wpc'[r] # "markProcessing"

\* C16 (as claimed): update_status called without an error argument leaves
\* the stored error message and the output fields as they were.
C16_UpdateKeepsErrorAndOutputs ==
    [][\A r \in Reqs :
          UpdateCallWithoutError(r) =>
             /\ store'[jid[r]].err = store[jid[r]].err
             /\ store'[jid[r]].out = store[jid[r]].out]_vars

\* C17: whatever the interleaving of writers, no read (get_analysis_by_job_id
\* or GET /status answered from the store) returns status completed from a
\* record whose output fields are not set.
C17_CompletedHasOutputs ==
    \A j \in JobIds :
       /\ get_analysis_by_job_id(store, j).status = "completed"
             => get_analysis_by_job_id(store, j).out = "set"
       /\ LET payload == get_job_status(j, TRUE, TRUE)
          IN  (payload.src = "store" /\ payload.status = "completed")
                 => payload.result = "set"

\* C17 witness: a record reads completed with its outputs while another
\* job's worker is in the middle of its pipeline call.
C17_Witness ==
    \E r1, r2 \in Reqs :
       /\ r1 # r2 /\ jid[r1] # jid[r2] /\ Submitted(r1)
       /\ wpc[r2] = "pipeline"
       /\ get_job_status(jid[r1], TRUE, TRUE).status = "completed"
       /\ get_job_status(jid[r1], TRUE, TRUE).result = "set"

C19_SectionsNonEmpty ==
    (/\ tph \in {"derived", "created", "processing", "stored", "read", "raised"}
     /\ result.has_raw /\ result.raw # <<>>)
       => \A k \in SectionKeys : analysis_data[k] # <<>>

\* C20 (as claimed): for a text made of a '## Risk Assessment' header line,
\* a one-sentence body and a following '## ' header,
\* extract_section(text, 'risk assessment') returns exactly the body; the
\* spec's scenario (body 'Market volatility is elevated.') is one of them.
C20_RiskScenarioReturnsBody ==
    \A b \in RiskBodies, h \in NextHeaders :
       (/\ tph = "extracted"
        /\ section.name = s_risk_assessment
        /\ section.text = ScenarioText(b, h))
          => section.value = b

(* ------------------ extract_section: markers and end ------------------- *)

\* some candidate marker of the section name occurs in the text, letters
\* compared without regard to case
MarkerOccurs(text, name) ==
    \E i \in 1..Len(patterns(Lowered(name))) :
       Contains(Lowered(text), Lowered(patterns(Lowered(name))[i]))

\* C21: for every text and section name such that no candidate marker of
\* the name occurs in the text, extract_section returns the empty string:
\* the call ends with a value, and no start position was found.
C21_UnmarkedIsEmpty ==
    (tph = "extracted" /\ ~MarkerOccurs(section.text, section.name))
       => section.value = <<>> /\ section.start = -1

\* C21 witness: a non-empty text of plain prose, without any marker of
\* 'risk assessment', was searched and the call returned the empty string.
C21_Witness ==
    /\ tph = "extracted"
    /\ section.text = t_plain
    /\ section.name = s_risk_assessment
    /\ ~MarkerOccurs(section.text, section.name)
    /\ section.value = <<>>

\* the smallest position, from a given offset on, at which any of the
\* delimiters occurs; the end of the text when none does
EarliestDelimiter(text, from) ==
    LET found == {Find(text, end_markers[k], from) :
                     k \in 1..Len(end_markers)} \ {-1}
    IN  IF found = {} THEN Len(text) ELSE MinOf(found)

\* C22 (as claimed): the section extract_section cuts ends at the smallest
\* position, at or after the look-ahead offset past the matched marker, at
\* which any of the delimiters occurs (the earliest in the text, whatever
\* its kind), or at the end of the text when none occurs.
C22_EndsAtEarliestDelimiter ==
    (tph = "extracted" /\ section.start # -1)
       => section.end =
             EarliestDelimiter(section.text,
                               section.start
                                 + Len(used_marker(section.text, section.name))
                                 + LookAhead)

\* C23: the section starts at the first occurrence of the highest-priority
\* candidate marker that occurs anywhere in the text (without regard to
\* case), also when a lower-priority marker occurs earlier, and the marker
\* removed from the front of the extracted text is that same marker: what
\* is returned is the text between start and end less that marker's length
\* (and a leading colon), when it is long enough.
C23_StartsAtHighestPriorityMarker ==
    (tph = "extracted" /\ MarkerOccurs(section.text, section.name)) =>
       LET pats == patterns(Lowered(section.name))
           highest == MinOf({i \in 1..Len(pats) :
                               Contains(Lowered(section.text),
                                        Lowered(pats[i]))})
           marker == Lowered(pats[highest])
           cut == Strip(Slice(section.text, section.start, section.end))
           body == Strip(SliceFrom(cut, Len(marker)))
           cleaned == IF StartsWith(body, s_colon)
                      THEN Strip(SliceFrom(body, 1)) ELSE body
       IN  /\ section.start = Find(Lowered(section.text), marker, 0)
           /\ StartsWith(Lowered(cut), marker)
           /\ section.value
                = IF Len(cleaned) > MinSectionLen THEN cleaned ELSE <<>>

\* C23 witness: in a text where 'risk assessment:' occurs ahead of the
\* '## Risk Assessment' header, the section was cut from the header on and
\* its body returned.
C23_Witness ==
    /\ tph = "extracted"
    /\ section.text = t_low_first
    /\ section.name = s_risk_assessment
    /\ Find(Lowered(section.text), s_risk_assessment \o s_colon, 0) # -1
    /\ Find(Lowered(section.text), s_risk_assessment \o s_colon, 0)
          < section.start
    /\ section.value # <<>>

(* ----------------------- extract_confidence_rating --------------------- *)

\* the text the confidence rating of the derived dict was read from: the
\* verification stage's output, or the full report when there is none
ClassifiedText ==
    OrElse(stage_output(result, 3), analysis_data.full_report)

\* a rating keyword co-occurs with CONFIDENCE or RATING in the text
KeywordPair(text, word) ==
    /\ Contains(Uppered(text), word)
    /\ \/ Contains(Uppered(text), s_CONFIDENCE)
       \/ Contains(Uppered(text), s_RATING)

\* C24: the rating derived from any text is one of HIGH, MEDIUM and LOW,
\* and it is HIGH for the empty text and for every text in which no rating
\* keyword co-occurs with a qualifier term.
C24_RatingTotalDefaultHigh ==
    (tph = "derived" /\ result # NoResult) =>
       /\ analysis_data.confidence_rating \in {s_HIGH, s_MEDIUM, s_LOW}
       /\ ClassifiedText = <<>> => analysis_data.confidence_rating = s_HIGH
       /\ (\A w \in {s_HIGH, s_MEDIUM, s_LOW} :
              ~KeywordPair(ClassifiedText, w))
             => analysis_data.confidence_rating = s_HIGH

\* C24 witness: a text that holds a rating keyword (MEDIUM) but no
\* qualifier term was classified, and the rating is HIGH.
C24_Witness ==
    /\ tph = "derived" /\ result # NoResult
    /\ ClassifiedText = t_medium_only
    /\ Contains(Uppered(ClassifiedText), s_MEDIUM)
    /\ ~KeywordPair(ClassifiedText, s_MEDIUM)
    /\ analysis_data.confidence_rating = s_HIGH

\* C25: HIGH is tested first, then MEDIUM, then LOW, and the first match
\* wins: the rating is MEDIUM only for a text with a MEDIUM pair and no
\* HIGH pair, LOW only for a text with a LOW pair and neither a HIGH nor a
\* MEDIUM pair, and a text with a HIGH pair is rated HIGH.
C25_FirstMatchWins ==
    (tph = "derived" /\ result # NoResult) =>
       /\ analysis_data.confidence_rating = s_MEDIUM
             => /\ KeywordPair(ClassifiedText, s_MEDIUM)
                /\ ~KeywordPair(ClassifiedText, s_HIGH)
       /\ analysis_data.confidence_rating = s_LOW
             => /\ KeywordPair(ClassifiedText, s_LOW)
                /\ ~KeywordPair(ClassifiedText, s_HIGH)
                /\ ~KeywordPair(ClassifiedText, s_MEDIUM)
       /\ KeywordPair(ClassifiedText, s_HIGH)
             => analysis_data.confidence_rating = s_HIGH

\* C25 witness: a text with both a MEDIUM pair and a LOW pair was
\* classified, and the rating is MEDIUM.
C25_Witness ==
    /\ tph = "derived" /\ result # NoResult
    /\ ClassifiedText = t_medium_and_low
    /\ KeywordPair(ClassifiedText, s_MEDIUM)
    /\ KeywordPair(ClassifiedText, s_LOW)
    /\ analysis_data.confidence_rating = s_MEDIUM

(* ---------------- submission: validation, modes, failures -------------- *)

\* C26 (as claimed): a submission without the .pdf extension, or whose
\* file is empty, is rejected with 400 before any job exists: a handler
\* that goes on past validation holds a non-empty document, and a request
\* answered 400 has no job id, nothing enqueued and no pipeline call.
C26_InvalidUploadRejected ==
    \A r \in Reqs :
       /\ pc[r] \notin {"idle", "returned"} => content = "data"
       /\ resp[r] = "400"
             => jid[r] = NoJob /\ wpc[r] = "none" /\ pipe[r] = "no"

\* C27: in queued mode a step of the submitting call leaves the store as
\* it is or adds the job's pending record, never calls the pipeline, and
\* hands the job to the queue only in the step that answers "queued", once.
C27_QueuedSubmitOnlyCreatesAndEnqueues ==
    [][\A r \in Reqs :
         (useCelery /\ pc'[r] # pc[r]) =>
            /\ \/ store' = store
               \/ /\ store[jid[r]] = NoRec
                  /\ store' = [store EXCEPT ![jid[r]] =
                                 [NoRec EXCEPT !.status = "pending",
                                               !.rows = 1]]
            /\ pipe' = pipe
            /\ (wpc'[r] # wpc[r] \/ resp'[r] = "queued")
                  => /\ wpc[r] = "none" /\ wpc'[r] = "queued"
                     /\ resp[r] = "none" /\ resp'[r] = "queued"
                     /\ pc'[r] = "returned"
            /\ \A q \in Reqs \ {r} : wpc'[q] = wpc[q]]_vars

\* C27 witness: a queued-mode call has answered "queued"; its record is
\* pending, its task waits in the queue and no pipeline has been called.
C27_Witness ==
    \E r \in Reqs :
       /\ useCelery /\ pc[r] = "returned" /\ resp[r] = "queued"
       /\ store[jid[r]].status = "pending"
       /\ wpc[r] = "queued" /\ pipe[r] = "no"

C29_ExtractionFailureFailsJob ==
    \A r \in Reqs :
       (content = "empty" /\ pc[r] \notin {"idle", "returned"})
          => pc[r] \notin {"store", "cleanup"} /\ pipe[r] # "ok"

\* C30 (as claimed): after every step, a job whose pipeline is running
\* has the stored status processing, and no record goes from pending
\* straight to completed or failed.
C30_ProcessingBeforePipeline ==
    [][/\ \A r \in Reqs :
            pipe'[r] = "running" => store'[jid'[r]].status = "processing"
       /\ \A j \in JobIds :
            store[j].status = "pending"
               => store'[j].status \in {"pending", "processing"}]_vars

(* ------------------ query, health, document reading -------------------- *)

\* C31: for a form query that is empty or whitespace only,
\* run_financial_crew is called with the canned default query, and for
\* every form query it is called with a query that is not empty and not
\* whitespace only.
C31_DefaultQuerySubstituted ==
    tph = "crew" =>
       /\ query.crew # <<>> /\ Strip(query.crew) # <<>>
       /\ Strip(query.form) = <<>> => query.crew = default_query

\* C31 witness: a form query of whitespace only was handed on as the
\* default query.
C31_Witness ==
    /\ tph = "crew"
    /\ query.form = q_blank
    /\ Strip(query.form) = <<>>
    /\ query.crew = default_query

\* C32: whatever of the store, the broker and the workers is reachable,
\* GET /health answers 200 with a report that says "connected" for the
\* store exactly when it was reachable and, in queued mode, the same for
\* the broker, and "running" exactly when workers answered.
C32_HealthAlways200 ==
    tph = "answered" =>
       /\ health_status.response.code = 200
       /\ health_status.response.database = "connected" <=> health_status.db
       /\ useCelery =>
             /\ health_status.response.redis = "connected"
                   <=> health_status.redis
             /\ health_status.response.celery = "running"
                   <=> health_status.stats = "some"
       /\ ~useCelery =>
             /\ health_status.response.redis = "absent"
             /\ health_status.response.celery = "absent"

\* C32 witness: in queued mode, with the store and the broker unreachable
\* and the worker inspection raising, the call was answered 200.
C32_Witness ==
    /\ tph = "answered" /\ useCelery
    /\ ~health_status.db /\ ~health_status.redis
    /\ health_status.stats = "raises"
    /\ health_status.response.code = 200
    /\ health_status.response.database = "error"

\* 'Error', what every failure text of read_data_tool starts with
s_Error == <<"E", "r", "r", "o", "r">>

\* how many times p occurs in s
Count(s, p) ==
    Cardinality({pos \in 0..(Len(s) - Len(p)) : OccursAt(s, p, pos)})

\* where the block of page i starts in the returned text (-1: nowhere)
PagePos(out, i) == Find(out, s_page_open \o IntStr(i) \o <<" ">>, 0)

\* the pages of the document read that failed to read
FailedPages ==
    {i \in 1..Len(document.file.pages) : document.file.pages[i].raises}

\* the pages of the document read that yielded non-whitespace text
TextPages ==
    {i \in 1..Len(document.file.pages) :
        /\ ~document.file.pages[i].raises
        /\ Strip(document.file.pages[i].text) # <<>>}

\* C33: for a document in which some pages fail to read, the text returned
\* is not an error; it holds, in page order, the text of every page that
\* has text (blank-line runs collapsed) under that page's header and one
\* reading-error marker for each failed page, and no other such marker.
C33_PagesIndependent ==
    (/\ tph = "text" /\ document.file.exists /\ document.file.opens
     /\ FailedPages # {})
       => LET out == document.returned
          IN  /\ ~StartsWith(out, s_Error)
              /\ \A i \in TextPages :
                    /\ PagePos(out, i) # -1
                    /\ OccursAt(out,
                                s_page_open \o IntStr(i) \o s_page_close
                                   \o CollapseNewlines(
                                         document.file.pages[i].text)
                                   \o <<"\n">>,
                                PagePos(out, i))
              /\ \A i \in FailedPages :
                    /\ PagePos(out, i) # -1
                    /\ OccursAt(out,
                                s_page_open \o IntStr(i) \o s_reading_error,
                                PagePos(out, i))
              /\ \A i, j \in TextPages \cup FailedPages :
                    i < j => PagePos(out, i) < PagePos(out, j)
              /\ Count(out, s_reading_error) = Cardinality(FailedPages)

\* C33 witness: a document of three pages whose second page failed to read
\* was read; the text returned holds pages 1 and 3 and one marker.
C33_Witness ==
    /\ tph = "text"
    /\ Len(document.file.pages) = 3
    /\ FailedPages = {2} /\ TextPages = {1, 3}
    /\ ~StartsWith(document.returned, s_Error)
    /\ Contains(document.returned, p_text_revenue)
    /\ Count(document.returned, s_reading_error) = 1

\* C34 (as claimed): for a document that opens and none of whose pages
\* yielded non-whitespace text (each page blank, empty or failed to read),
\* read_data_tool returns its no-text error.
C34_NoContentWhenNoText ==
    (/\ tph = "text" /\ document.file.exists /\ document.file.opens
     /\ TextPages = {})
       => document.returned = s_no_text

\* C35 (as claimed): from one pipeline result, of whatever shape, the
\* handler's derivation and the worker's give the same dict.
C35_SameDerivation ==
    (tph = "derived" /\ result # NoResult) =>
       /\ analysis_data = inline_analysis_data(result)
       /\ analysis_data = worker_analysis_data(result)

\* C36 (as claimed): on the table the startup handler creates, no statement
\* of the Job Store is rejected for a column it names.
C36_StartupTableHasColumns ==
    table = startup_columns => tph # "rejected"

\* C37 (as claimed): in queued mode a record that reads pending eventually
\* reads something else.
C37_PendingEventuallyLeft ==
    \A j \in JobIds :
       (useCelery /\ store[j].status = "pending")
          ~> (store[j].status # "pending")

=============================================================================
